---- MODULE Spec2Model ----
(***************************************************************************)
(* A model of agent-skills-cli: the `add` command (git-source installer),  *)
(* the `install` command, skill resolution against the remote index with   *)
(* its legacy fallback, and the export adapters.                           *)
(*                                                                         *)
(* The filesystem is a record [files, dirs]: files maps a path (a sequence *)
(* of segments) to its content, dirs is the set of directory paths.        *)
(* A content is a sequence of lines, each line a record [k, v].            *)
(***************************************************************************)
EXTENDS Integers, Sequences, FiniteSets, TLC

VARIABLES
    cmd,            \* the command this run executes
    pc,             \* position in the command's handler
    exitCode,       \* "none" while running or after a plain return, 1 after process.exit(1)
    fs,             \* the filesystem
    opts,           \* the command line: options and arguments
    env,            \* the environment: cwd, the remote repository, prompt answers
    tempDir,        \* the scratch directory of the run (<<>> before it is chosen)
    skills,         \* add: the discovered candidates
    selectedSkills, \* add: the candidates selected for install
    targetAgents,   \* add: the agents selected; install: the platforms
    loop,           \* [i, j]: position of the install loop (skill index, agent index)
    attempted,      \* the (skill index, agent index) pairs whose copy was attempted
    reported,       \* the diagnostics printed so far (a set of tags)
    resolvedSkill,  \* resolution: the handler's `skill`, << >> for null, else <<the record>>
    remoteCalls,    \* resolution: requests sent to the remote index
    legacyCalls,    \* resolution: queries of the legacy marketplace
    listing,        \* the listing commands' result: the skills to print
    loadedSkills,   \* export: the skills loadSkill returned
    exported,       \* export: the adapters run so far, in order
    sourceArg,      \* add: the <source> argument
    parsedSource,   \* add: << >> before parseSource, then <<its result>>
    cloneCommand,   \* add: the git command line of the clone, << >> before it
    tasks,          \* wizard: the per-skill installs Promise.all waits for
    results,        \* wizard: << >> until Promise.all resolves, then its array
    procs,          \* CLI processes that run side by side on one machine
    call            \* a library function in progress: its inputs, position and result

vars == <<cmd, pc, exitCode, fs, opts, env, tempDir, skills, selectedSkills,
          targetAgents, loop, attempted, reported, resolvedSkill, remoteCalls, legacyCalls, listing,
          loadedSkills, exported, sourceArg, parsedSource, cloneCommand,
          tasks, results, procs, call>>

\* what the placement part of a handler works on
placeVars == <<fs, tempDir, skills, selectedSkills, targetAgents, loop, attempted>>

\* what the export adapters work on (besides fs)
exportVars == <<loadedSkills, exported>>

\* what the resolution part of a handler works on
resolveVars == <<resolvedSkill, remoteCalls, legacyCalls, listing>>

\* what the source classification of `add` works on
sourceVars == <<sourceArg, parsedSource, cloneCommand>>

\* what the concurrent installs of the wizard work on (besides fs)
wizardVars == <<tasks, results>>

\* what the actions of one part leave alone in the other parts
besidesPlace == <<resolveVars, exportVars, sourceVars, wizardVars, procs, call>>

besidesResolve == <<placeVars, exportVars, sourceVars, wizardVars, procs, call>>

besidesExport == <<resolveVars, sourceVars, wizardVars, procs, call>>

besidesSource == <<placeVars, resolveVars, exportVars, wizardVars, procs, call>>

besidesWizard == <<resolveVars, exportVars, sourceVars, procs, call>>

besidesProcs == <<resolveVars, exportVars, sourceVars, wizardVars, call>>

besidesCall == <<resolveVars, exportVars, sourceVars, wizardVars, procs>>

WizardIdle == tasks = << >> /\ results = << >>

ProcsIdle == procs = << >>

CallIdle == call = << >>

SourceIdle == sourceArg = << >> /\ parsedSource = << >> /\ cloneCommand = << >>

-----------------------------------------------------------------------------
(* Paths and the filesystem                                                *)

IsPrefix(p, q) == Len(p) <= Len(q) /\ SubSeq(q, 1, Len(p)) = p

\* path.join of two segment sequences
join(p, q) == p \o q

\* the part of q below p
Rel(p, q) == SubSeq(q, Len(p) + 1, Len(q))

Ancestors(d) == { SubSeq(d, 1, k) : k \in 1..Len(d) }

EmptyFs == [files |-> << >>, dirs |-> {}]

existsSync(f, p) == p \in f.dirs \/ p \in DOMAIN f.files

\* mkdir(d, { recursive: true })
mkdir(f, d) == [f EXCEPT !.dirs = @ \cup Ancestors(d)]

\* writeFile(p, c): the file is replaced as a whole
writeFile(f, p, c) ==
    [f EXCEPT !.files = [q \in DOMAIN f.files \cup {p} |-> IF q = p THEN c ELSE f.files[q]]]

\* rm(d, { recursive: true, force: true })
rm(f, d) ==
    [files |-> [q \in { x \in DOMAIN f.files : ~IsPrefix(d, x) } |-> f.files[q]],
     dirs  |-> { x \in f.dirs : ~IsPrefix(d, x) }]

\* cp(src, dst, { recursive: true }): every file and directory below src is
\* written below dst; files already at dst are overwritten, others are kept
cp(f, src, dst) ==
    LET srcFiles == { q \in DOMAIN f.files : IsPrefix(src, q) }
        srcDirs  == { q \in f.dirs : IsPrefix(src, q) }
        copied   == { join(dst, Rel(src, q)) : q \in srcFiles }
        from(p)  == join(src, Rel(dst, p))
    IN  [files |-> [p \in DOMAIN f.files \cup copied |->
                        IF p \in copied THEN f.files[from(p)] ELSE f.files[p]],
         dirs  |-> f.dirs \cup UNION { Ancestors(join(dst, Rel(src, q))) : q \in srcDirs }]

\* the files below directory d, by their path relative to d
Tree(f, d) ==
    LET below == { q \in DOMAIN f.files : IsPrefix(d, q) /\ q # d }
    IN  [r \in { Rel(d, q) : q \in below } |-> f.files[join(d, r)]]

-----------------------------------------------------------------------------
(* The agent table                                                         *)

home == <<"home">>

AgentKeys ==
    <<"cursor", "claude", "copilot", "codex", "antigravity",
      "opencode", "amp", "kilo", "roo", "goose">>

AgentKeySet == { AgentKeys[k] : k \in 1..Len(AgentKeys) }

ProjectDirOf(a) ==
    CASE a = "cursor"      -> <<".cursor", "skills">>
      [] a = "claude"      -> <<".claude", "skills">>
      [] a = "copilot"     -> <<".github", "skills">>
      [] a = "codex"       -> <<".codex", "skills">>
      [] a = "antigravity" -> <<".agent", "skills">>
      [] a = "opencode"    -> <<".opencode", "skill">>
      [] a = "amp"         -> <<".agents", "skills">>
      [] a = "kilo"        -> <<".kilocode", "skills">>
      [] a = "roo"         -> <<".roo", "skills">>
      [] a = "goose"       -> <<".goose", "skills">>

GlobalSuffixOf(a) ==
    CASE a = "cursor"      -> <<".cursor", "skills">>
      [] a = "claude"      -> <<".claude", "skills">>
      [] a = "copilot"     -> <<".github", "skills">>
      [] a = "codex"       -> <<".codex", "skills">>
      [] a = "antigravity" -> <<".gemini", "antigravity", "skills">>
      [] a = "opencode"    -> <<".config", "opencode", "skill">>
      [] a = "amp"         -> <<".config", "agents", "skills">>
      [] a = "kilo"        -> <<".kilocode", "skills">>
      [] a = "roo"         -> <<".roo", "skills">>
      [] a = "goose"       -> <<".config", "goose", "skills">>

AGENTS ==
    [a \in AgentKeySet |->
        [name |-> a, projectDir |-> ProjectDirOf(a), globalDir |-> join(home, GlobalSuffixOf(a))]]

\* a skill directory that forgets the --global flag
SkillDirAlwaysProject(agent, isGlobal, cwd, name) ==
    join(cwd, join(AGENTS[agent].projectDir, <<name>>))

\* the skill directory of the install loops:
\* isGlobal ? join(targetDir, name) : join(process.cwd(), targetDir, name)
SkillDir(agent, isGlobal, cwd, name) ==
    IF isGlobal THEN join(AGENTS[agent].globalDir, <<name>>)
    ELSE join(cwd, join(AGENTS[agent].projectDir, <<name>>))

-----------------------------------------------------------------------------
(* Strings                                                                 *)

\* String.prototype.toLowerCase on the names the model uses
toLowerCase(s) ==
    CASE s = "PDF"   -> "pdf"
      [] s = "Pdf"   -> "pdf"
      [] s = "ACME"  -> "acme"
      [] s = "Acme"  -> "acme"
      [] s = "Bogus" -> "bogus"
      [] s = "Claude" -> "claude"
      [] s = "SKILL.md" -> "skill.md"
      [] OTHER       -> s

\* toLowerCase, element by element
lower(str) == [k \in 1..Len(str) |-> toLowerCase(str[k])]

-----------------------------------------------------------------------------
(* Contents and repositories                                               *)

Line(k, v) == [k |-> k, v |-> v]

\* a SKILL.md with a name line, a description line and a body
SkillMd(n, d, b) == <<Line("name", n), Line("description", d), Line("body", b)>>

\* a SKILL.md without a name line
SkillMdNoName(d, b) == <<Line("description", d), Line("body", b)>>

Text(t) == <<Line("text", t)>>

\* the directories a set of files implies (git keeps no empty directory)
DirsOf(files) == UNION { Ancestors(SubSeq(q, 1, Len(q) - 1)) : q \in DOMAIN files }

MkTree(files) == [files |-> files, dirs |-> DirsOf(files)]

RepoNoSkills == MkTree((<<"README.md">> :> Text("readme")))

RepoOne ==
    MkTree((<<"skills", "pdf", "SKILL.md">> :> SkillMd("pdf", "d1", "b1"))
        @@ (<<"skills", "pdf", "run.py">> :> Text("py1")))

RepoTwo ==
    MkTree((<<"skills", "pdf", "SKILL.md">> :> SkillMd("pdf", "d1", "b1"))
        @@ (<<"skills", "xlsx", "SKILL.md">> :> SkillMdNoName("d2", "b2"))
        @@ (<<"skills", "xlsx", "ref", "a.txt">> :> Text("ref1")))

\* two folders whose SKILL.md carry the same name
RepoSameName ==
    MkTree((<<"skills", "pdf", "SKILL.md">> :> SkillMd("pdf", "d1", "b1"))
        @@ (<<"skills", "pdf", "run.py">> :> Text("py1"))
        @@ (<<".claude", "skills", "office", "SKILL.md">> :> SkillMd("pdf", "d3", "b3")))

\* a skill kept in the project skills folder of GitHub Copilot
RepoCopilot ==
    MkTree((<<".github", "skills", "review", "SKILL.md">> :> SkillMd("review", "d4", "b4")))

Repos == { RepoNoSkills, RepoOne, RepoTwo, RepoSameName, RepoCopilot }

\* the repositories a resolved skill's URL can lead to
InstallRepos == { RepoNoSkills, RepoOne }

\* what is on disk before the command runs
FsStale ==
    MkTree((<<"home", ".cursor", "skills", "pdf", "old.txt">> :> Text("old"))
        @@ (<<"home", "proj", ".cursor", "skills", "pdf", "old.txt">> :> Text("old")))

InitialFs == { EmptyFs, FsStale }

Cwds == { home, <<"home", "proj">> }

tmpdir == <<"tmp">>

\* git clone into dir: the repository's tree appears below dir
CloneInto(f, dir, repo) ==
    [files |-> [p \in DOMAIN f.files \cup { join(dir, q) : q \in DOMAIN repo.files } |->
                    IF IsPrefix(dir, p) /\ Rel(dir, p) \in DOMAIN repo.files
                    THEN repo.files[Rel(dir, p)] ELSE f.files[p]],
     dirs  |-> f.dirs \cup { join(dir, q) : q \in repo.dirs }]

\* the scratch directory of `install`: join(tmpdir(), `skill-${Date.now()}`)
InstallTempDir(stamp) == join(tmpdir, <<"skill-" \o stamp>>)

\* the scratch directory of `add`: join(tmpdir(), `add-skill-${Date.now()}`)
AddTempDir(stamp) == join(tmpdir, <<"add-skill-" \o stamp>>)

-----------------------------------------------------------------------------
(* add: discovery                                                          *)

\* content.match(/^name:\s*(.+)$/m), else the directory's name
NameOf(content, entry) ==
    LET hits == { k \in 1..Len(content) : content[k].k = "name" }
    IN  IF hits = {} THEN entry
        ELSE content[CHOOSE k \in hits : \A m \in hits : k <= m].v

DescOf(content) ==
    LET hits == { k \in 1..Len(content) : content[k].k = "description" }
    IN  IF hits = {} THEN ""
        ELSE content[CHOOSE k \in hits : \A m \in hits : k <= m].v

searchDirs(searchPath) ==
    <<searchPath,
      join(searchPath, <<"skills">>),
      join(searchPath, <<".claude", "skills">>),
      join(searchPath, <<".cursor", "skills">>),
      join(searchPath, <<".agent", "skills">>),
      join(searchPath, <<".codex", "skills">>),
      join(searchPath, <<".opencode", "skill">>)>>

\* the candidates of one searched folder: its immediate subdirectories that hold SKILL.md
CandidatesIn(f, searchDir) ==
    { [name        |-> NameOf(f.files[join(d, <<"SKILL.md">>)], d[Len(d)]),
       description |-> DescOf(f.files[join(d, <<"SKILL.md">>)]),
       path        |-> d] :
      d \in { x \in f.dirs : /\ Len(x) = Len(searchDir) + 1
                             /\ IsPrefix(searchDir, x)
                             /\ join(x, <<"SKILL.md">>) \in DOMAIN f.files } }

\* readdir gives the entries of a folder in an order the filesystem chooses
Orderings(S) ==
    { s \in [1..Cardinality(S) -> S] : \A x \in S : \E k \in 1..Cardinality(S) : s[k] = x }

RECURSIVE DiscoverFrom(_, _, _)
DiscoverFrom(f, dirsLeft, k) ==
    IF k > Len(dirsLeft) THEN { << >> }
    ELSE { a \o b : a \in Orderings(CandidatesIn(f, dirsLeft[k])),
                    b \in DiscoverFrom(f, dirsLeft, k + 1) }

\* discoverSkillsInDir(dir, subpath): the candidate lists it can return
discoverSkillsInDir(f, dir, subpath) == DiscoverFrom(f, searchDirs(join(dir, subpath)), 1)

-----------------------------------------------------------------------------
(* add: the command                                                        *)

AddOptions ==
    [global  : BOOLEAN,
     list    : BOOLEAN,
     yes     : BOOLEAN,
     skill   : { << >>, <<"PDF">>, <<"nope">> },
     agent   : { << >>, <<"cursor", "claude", "antigravity">>, <<"Bogus", "cursor">> },
     subpath : { << >> }]

\* the answers the operator can give to the agent prompt
AgentPromptAnswers == { << >>, <<"cursor", "claude", "antigravity">> }

\* the sub-lists of a list: what a checkbox prompt can return
SubLists(s) ==
    { [k \in 1..Cardinality(keep) |->
          s[CHOOSE m \in keep : Cardinality({ n \in keep : n < m }) = k - 1]] :
      keep \in SUBSET (1..Len(s)) }

\* Array.prototype.filter, the predicate given as the set of positions it keeps
filter(s, keep) ==
    [k \in 1..Cardinality(keep) |->
        s[CHOOSE m \in keep : Cardinality({ n \in keep : n < m }) = k - 1]]

Range(s) == { s[k] : k \in 1..Len(s) }

\* process.exit(1) in the handler's catch block
CatchAndExit ==
    /\ pc' = "done"
    /\ exitCode' = 1
    /\ reported' = reported \cup {"error"}

\* a plain return from the handler
Return(tag) ==
    /\ pc' = "done"
    /\ exitCode' = exitCode
    /\ reported' = reported \cup {tag}

\* tempDir = join(tmpdir(), `add-skill-${Date.now()}`); mkdir(tempDir)
AddBegin ==
    /\ cmd = "add" /\ pc = "start"
    /\ tempDir' = AddTempDir("T")
    /\ fs' = mkdir(fs, tempDir')
    /\ pc' = "clone"
    /\ UNCHANGED besidesPlace
    /\ UNCHANGED <<cmd, exitCode, opts, env, skills, selectedSkills, targetAgents,
                   loop, attempted, reported>>

AddCloneOk ==
    /\ cmd = "add" /\ pc = "clone"
    /\ fs' = CloneInto(fs, tempDir, env.repo)
    /\ pc' = "discover"
    /\ UNCHANGED besidesPlace
    /\ UNCHANGED <<cmd, exitCode, opts, env, tempDir, skills, selectedSkills,
                   targetAgents, loop, attempted, reported>>

\* a clone failure that returns without removing the scratch directory
AddCloneFailLeavesScratch ==
    /\ cmd = "add" /\ pc = "clone"
    /\ Return("clone-failed")
    /\ UNCHANGED besidesPlace
    /\ UNCHANGED <<cmd, fs, opts, env, tempDir, skills, selectedSkills, targetAgents,
                   loop, attempted>>

\* git clone failed: the scratch directory is removed and the handler returns
AddCloneFail ==
    /\ cmd = "add" /\ pc = "clone"
    /\ fs' = rm(fs, tempDir)
    /\ Return("clone-failed")
    /\ UNCHANGED besidesPlace
    /\ UNCHANGED <<cmd, opts, env, tempDir, skills, selectedSkills, targetAgents,
                   loop, attempted>>

\* discovery, then the "no skills" and --list exits
AddDiscover ==
    /\ cmd = "add" /\ pc = "discover"
    /\ \E found \in discoverSkillsInDir(fs, tempDir, opts.subpath) :
          /\ skills' = found
          /\ IF Len(found) = 0
             THEN /\ fs' = rm(fs, tempDir)
                  /\ Return("no-skills")
             ELSE IF opts.list
             THEN /\ fs' = rm(fs, tempDir)
                  /\ Return("listed")
             ELSE /\ fs' = fs
                  /\ pc' = "select-skills"
                  /\ UNCHANGED <<exitCode, reported>>
    /\ UNCHANGED besidesPlace
    /\ UNCHANGED <<cmd, opts, env, tempDir, selectedSkills, targetAgents, loop, attempted>>

\* --skill names: case-insensitive exact match on the parsed name
SkillFilter(found, names) ==
    filter(found, { m \in 1..Len(found) : \E k \in 1..Len(names) :
                        toLowerCase(found[m].name) = toLowerCase(names[k]) })

\* a skill prompt that is shown under --yes too
SkillPromptIgnoresYes(found, o) == Len(o.skill) = 0 /\ Len(found) > 1

\* the checkbox prompt for skills is shown
SkillPrompt(found, o) == Len(o.skill) = 0 /\ ~o.yes /\ Len(found) > 1

\* the selections the skill step can end with
SkillSelections(found, o) ==
    IF Len(o.skill) > 0 THEN { SkillFilter(found, o.skill) }
    ELSE IF SkillPrompt(found, o) THEN SubLists(found)
    ELSE { found }

AddSelectSkills ==
    /\ cmd = "add" /\ pc = "select-skills"
    /\ \E sel \in SkillSelections(skills, opts) :
          LET shown == IF SkillPrompt(skills, opts) THEN {"prompt-skills"} ELSE {}
          IN  /\ selectedSkills' = sel
              /\ exitCode' = exitCode
              /\ IF Len(sel) = 0
                 THEN /\ fs' = rm(fs, tempDir)
                      /\ pc' = "done"
                      /\ reported' = reported \cup shown \cup {"no-skill-selected"}
                 ELSE /\ fs' = fs
                      /\ pc' = "select-agents"
                      /\ reported' = reported \cup shown
    /\ UNCHANGED besidesPlace
    /\ UNCHANGED <<cmd, opts, env, tempDir, skills, targetAgents, loop, attempted>>

\* the checkbox prompt for agents is shown
AgentPrompt(o) == Len(o.agent) = 0 /\ ~o.yes

\* the selections the agent step can end with
AgentSelections(o) ==
    IF Len(o.agent) > 0 THEN { o.agent }
    ELSE IF o.yes THEN { AgentKeys }
    ELSE AgentPromptAnswers

AddSelectAgents ==
    /\ cmd = "add" /\ pc = "select-agents"
    /\ \E sel \in AgentSelections(opts) :
          LET shown == IF AgentPrompt(opts) THEN {"prompt-agents"} ELSE {}
          IN  /\ targetAgents' = sel
              /\ exitCode' = exitCode
              /\ IF Len(sel) = 0
                 THEN /\ fs' = rm(fs, tempDir)
                      /\ pc' = "done"
                      /\ reported' = reported \cup shown \cup {"no-agent-selected"}
                 ELSE /\ fs' = fs
                      /\ pc' = "install"
                      /\ reported' = reported \cup shown
    /\ UNCHANGED besidesPlace
    /\ UNCHANGED <<cmd, opts, env, tempDir, skills, selectedSkills, loop, attempted>>

\* the loop position after the pair (i, j)
NextPair(l, nAgents) ==
    IF l.j < nAgents THEN [i |-> l.i, j |-> l.j + 1] ELSE [i |-> l.i + 1, j |-> 1]

AddInLoop == cmd = "add" /\ pc = "install" /\ loop.i <= Len(selectedSkills)

\* if (!agentConfig) continue
AddPairSkip ==
    /\ AddInLoop
    /\ targetAgents[loop.j] \notin DOMAIN AGENTS
    /\ loop' = NextPair(loop, Len(targetAgents))
    /\ UNCHANGED besidesPlace
    /\ UNCHANGED <<cmd, pc, exitCode, fs, opts, env, tempDir, skills, selectedSkills,
                   targetAgents, attempted, reported>>

\* what mkdir(skillDir) then cp(skill.path, skillDir) leave when both succeed
PlaceSkill(f, src, skillDir) == cp(mkdir(f, skillDir), src, skillDir)

AddPairCopy ==
    /\ AddInLoop
    /\ targetAgents[loop.j] \in DOMAIN AGENTS
    /\ LET skill    == selectedSkills[loop.i]
           skillDir == SkillDir(targetAgents[loop.j], opts.global, env.cwd, skill.name)
       IN  fs' = PlaceSkill(fs, skill.path, skillDir)
    /\ attempted' = attempted \cup { <<loop.i, loop.j>> }
    /\ loop' = NextPair(loop, Len(targetAgents))
    /\ UNCHANGED besidesPlace
    /\ UNCHANGED <<cmd, pc, exitCode, opts, env, tempDir, skills, selectedSkills,
                   targetAgents, reported>>

\* mkdir or cp of the pair throws: the handler's catch reports and exits;
\* nothing on this path removes the scratch directory
AddPairThrow ==
    /\ AddInLoop
    /\ targetAgents[loop.j] \in DOMAIN AGENTS
    /\ LET skill    == selectedSkills[loop.i]
           skillDir == SkillDir(targetAgents[loop.j], opts.global, env.cwd, skill.name)
       IN  \/ fs' = fs                      \* mkdir threw
           \/ fs' = mkdir(fs, skillDir)     \* cp threw
    /\ attempted' = attempted \cup { <<loop.i, loop.j>> }
    /\ CatchAndExit
    /\ UNCHANGED besidesPlace
    /\ UNCHANGED <<cmd, opts, env, tempDir, skills, selectedSkills, targetAgents, loop>>

\* after the loop: the success message and the final cleanup
AddFinish ==
    /\ cmd = "add" /\ pc = "install" /\ loop.i > Len(selectedSkills)
    /\ fs' = rm(fs, tempDir)
    /\ Return("installed")
    /\ UNCHANGED besidesPlace
    /\ UNCHANGED <<cmd, opts, env, tempDir, skills, selectedSkills, targetAgents,
                   loop, attempted>>

AddNext ==
    \/ AddBegin
    \/ AddCloneOk
    \/ AddCloneFail
    \/ AddDiscover
    \/ AddSelectSkills
    \/ AddSelectAgents
    \/ AddPairSkip
    \/ AddPairCopy
    \/ AddPairThrow
    \/ AddFinish

-----------------------------------------------------------------------------
(* install: the command, from the resolved skill on                        *)
(* (resolution and the legacy fallback are modelled by SpecResolve)        *)

\* the records resolution can hand to the rest of the handler
ResolvedSkills ==
    { [name |-> "pdf",  author |-> "acme", githubUrl |-> "github", path |-> <<"skills", "pdf", "SKILL.md">>],
      [name |-> "xlsx", author |-> "acme", githubUrl |-> "github", path |-> << >>],
      [name |-> "pdf",  author |-> "acme", githubUrl |-> "elsewhere", path |-> <<"skills", "pdf">>],
      [name |-> "pdf",  author |-> "acme", githubUrl |-> "", path |-> <<"skills", "pdf">>] }

InstallOptions ==
    [global       : BOOLEAN,
     list         : BOOLEAN,
     all          : BOOLEAN,
     platformsArg : { << >>, <<"Claude", "bogus">> },
     target       : { << >>, <<"cursor", "antigravity">> },
     platform     : { << >>, <<"codex">> }]

\* the answers the operator can give to the platform prompt
PlatformPromptAnswers == { << >>, <<"cursor", "claude">> }

\* path.replace(/\/SKILL\.md$/i, '')
StripSkillMd(path) ==
    IF Len(path) >= 2 /\ toLowerCase(path[Len(path)]) = "skill.md"
    THEN SubSeq(path, 1, Len(path) - 1)
    ELSE path

\* auto-detection: the agents whose marker directory exists in the current directory
DetectedPlatforms(f, cwd) ==
    LET markers == <<[dir |-> ".cursor", key |-> "cursor"],
                     [dir |-> ".claude", key |-> "claude"],
                     [dir |-> ".github", key |-> "copilot"],
                     [dir |-> ".codex",  key |-> "codex"],
                     [dir |-> ".agent",  key |-> "antigravity"]>>
        hit == filter(markers, { m \in 1..Len(markers) :
                                    existsSync(f, join(cwd, <<markers[m].dir>>)) })
    IN  [k \in 1..Len(hit) |-> hit[k].key]

\* a selection that looks at --target before the positional arguments
PlatformSelectionsTargetFirst(f, cwd, o) ==
    IF o.all THEN { AgentKeys }
    ELSE IF Len(o.target) > 0 THEN { lower(o.target) }
    ELSE IF Len(o.platformsArg) > 0 THEN { lower(o.platformsArg) }
    ELSE IF Len(o.platform) > 0 THEN { lower(o.platform) }
    ELSE IF Len(DetectedPlatforms(f, cwd)) > 0 THEN { DetectedPlatforms(f, cwd) }
    ELSE PlatformPromptAnswers

\* the checkbox prompt for platforms is shown
PlatformPrompt(f, cwd, o) ==
    /\ ~o.all /\ Len(o.platformsArg) = 0 /\ Len(o.target) = 0 /\ Len(o.platform) = 0
    /\ Len(DetectedPlatforms(f, cwd)) = 0

\* the platform lists the selection can end with
\* (priority: --all > positional args > -t > -p > auto-detect, then the prompt)
PlatformSelections(f, cwd, o) ==
    IF o.all THEN { AgentKeys }
    ELSE IF Len(o.platformsArg) > 0 THEN { lower(o.platformsArg) }
    ELSE IF Len(o.target) > 0 THEN { lower(o.target) }
    ELSE IF Len(o.platform) > 0 THEN { lower(o.platform) }
    ELSE IF Len(DetectedPlatforms(f, cwd)) > 0 THEN { DetectedPlatforms(f, cwd) }
    ELSE PlatformPromptAnswers

\* from the resolved skill to the scratch directory
InstallBegin ==
    /\ cmd = "install" /\ pc = "start"
    /\ IF env.skill.githubUrl = ""
       THEN /\ Return("no-url")
            /\ UNCHANGED <<fs, tempDir, targetAgents>>
       ELSE IF opts.list
       THEN /\ Return("listed")
            /\ UNCHANGED <<fs, tempDir, targetAgents>>
       ELSE \E sel \in PlatformSelections(fs, env.cwd, opts) :
               /\ targetAgents' = sel
               /\ exitCode' = exitCode
               /\ LET shown == IF PlatformPrompt(fs, env.cwd, opts)
                               THEN {"prompt-platforms"} ELSE {}
                  IN  IF Len(sel) = 0
                      THEN /\ pc' = "done"
                           /\ reported' = reported \cup shown \cup {"no-platforms"}
                           /\ UNCHANGED <<fs, tempDir>>
                      ELSE /\ tempDir' = InstallTempDir("T")
                           /\ fs' = mkdir(fs, tempDir')
                           /\ pc' = "clone"
                           /\ reported' = reported \cup shown
    /\ UNCHANGED besidesPlace
    /\ UNCHANGED <<cmd, opts, env, skills, selectedSkills, loop, attempted>>

\* a finally block that removes nothing
FinallySkipped(f, dir) == f

\* the finally block of the guarded region
Finally(f, dir) == rm(f, dir)

\* githubUrl.match(/github\.com\/([^\/]+)\/([^\/]+)/) fails: return from inside try
InstallInvalidUrl ==
    /\ cmd = "install" /\ pc = "clone"
    /\ env.skill.githubUrl # "github"
    /\ fs' = Finally(fs, tempDir)
    /\ Return("invalid-url")
    /\ UNCHANGED besidesPlace
    /\ UNCHANGED <<cmd, opts, env, tempDir, skills, selectedSkills, targetAgents,
                   loop, attempted>>

InstallCloneOk ==
    /\ cmd = "install" /\ pc = "clone"
    /\ env.skill.githubUrl = "github"
    /\ fs' = CloneInto(fs, tempDir, env.repo)
    /\ pc' = "install"
    /\ UNCHANGED besidesPlace
    /\ UNCHANGED <<cmd, exitCode, opts, env, tempDir, skills, selectedSkills,
                   targetAgents, loop, attempted, reported>>

\* a clone failure whose finally block does not run
InstallCloneFailLeavesScratch ==
    /\ cmd = "install" /\ pc = "clone"
    /\ env.skill.githubUrl = "github"
    /\ fs' = fs
    /\ CatchAndExit
    /\ UNCHANGED besidesPlace
    /\ UNCHANGED <<cmd, opts, env, tempDir, skills, selectedSkills, targetAgents,
                   loop, attempted>>

\* git clone throws: finally, then the handler's catch
InstallCloneFail ==
    /\ cmd = "install" /\ pc = "clone"
    /\ env.skill.githubUrl = "github"
    /\ fs' = Finally(fs, tempDir)
    /\ CatchAndExit
    /\ UNCHANGED besidesPlace
    /\ UNCHANGED <<cmd, opts, env, tempDir, skills, selectedSkills, targetAgents,
                   loop, attempted>>

InstallInLoop == cmd = "install" /\ pc = "install" /\ loop.j <= Len(targetAgents)

\* sourceDir = skillPath ? join(tempDir, skillPath) : tempDir
SourceDir(dir, skill) == join(dir, StripSkillMd(skill.path))

\* Unknown platform: continue
InstallPairSkip ==
    /\ InstallInLoop
    /\ targetAgents[loop.j] \notin DOMAIN AGENTS
    /\ loop' = [loop EXCEPT !.j = @ + 1]
    /\ reported' = reported \cup {"unknown-platform"}
    /\ UNCHANGED besidesPlace
    /\ UNCHANGED <<cmd, pc, exitCode, fs, opts, env, tempDir, skills, selectedSkills,
                   targetAgents, attempted>>

\* the flat <name>.md beside the antigravity skill folder, when the source holds SKILL.md
FlatMd(f, sourceDir, flatMdDir, name) ==
    IF existsSync(f, join(sourceDir, <<"SKILL.md">>))
    THEN writeFile(f, join(flatMdDir, <<name \o ".md">>), f.files[join(sourceDir, <<"SKILL.md">>)])
    ELSE f

\* mkdir, cp and (for antigravity) the flat file of one platform
InstallPlace(f, platform, isGlobal, cwd, sourceDir, name) ==
    LET skillDir  == SkillDir(platform, isGlobal, cwd, name)
        flatMdDir == SubSeq(skillDir, 1, Len(skillDir) - 1)
        placed    == PlaceSkill(f, sourceDir, skillDir)
    IN  IF platform = "antigravity" THEN FlatMd(placed, sourceDir, flatMdDir, name) ELSE placed

InstallPairCopy ==
    /\ InstallInLoop
    /\ targetAgents[loop.j] \in DOMAIN AGENTS
    /\ SourceDir(tempDir, env.skill) \in fs.dirs
    /\ fs' = InstallPlace(fs, targetAgents[loop.j], opts.global, env.cwd,
                          SourceDir(tempDir, env.skill), env.skill.name)
    /\ attempted' = attempted \cup { <<1, loop.j>> }
    /\ loop' = [loop EXCEPT !.j = @ + 1]
    /\ UNCHANGED besidesPlace
    /\ UNCHANGED <<cmd, pc, exitCode, opts, env, tempDir, skills, selectedSkills,
                   targetAgents, reported>>

\* mkdir or cp throws (cp always does when the source folder is missing):
\* finally removes the scratch directory, then catch exits
InstallPairThrow ==
    /\ InstallInLoop
    /\ targetAgents[loop.j] \in DOMAIN AGENTS
    /\ LET skillDir == SkillDir(targetAgents[loop.j], opts.global, env.cwd, env.skill.name)
       IN  \/ fs' = Finally(fs, tempDir)
           \/ fs' = Finally(mkdir(fs, skillDir), tempDir)
    /\ attempted' = attempted \cup { <<1, loop.j>> }
    /\ CatchAndExit
    /\ UNCHANGED besidesPlace
    /\ UNCHANGED <<cmd, opts, env, tempDir, skills, selectedSkills, targetAgents, loop>>

trackingDir == join(home, <<".antigravity">>)

trackingFile == join(trackingDir, <<"installed.json">>)

\* a file whose text is a JSON array of entries
IsArray(content) == \A k \in 1..Len(content) : content[k].k = "entry"

\* a file whose text is JSON, but not an array: an object, null, a number
JsonObject == <<Line("json", "{}")>>

\* a file whose text is not JSON
NotJson == Text("garbage")

\* let installed = []; try { installed = JSON.parse(readFile(trackingFile)) } catch { }
\* [] when the file is missing or does not parse, else the parsed value
ReadInstalled(f) ==
    IF trackingFile \in DOMAIN f.files
       /\ (IsArray(f.files[trackingFile]) \/ f.files[trackingFile] = JsonObject)
    THEN f.files[trackingFile]
    ELSE << >>

TrackingEntry(skill, platforms) ==
    Line("entry", [name |-> skill.name, author |-> skill.author,
                   platforms |-> platforms, githubUrl |-> skill.githubUrl])

\* the loop is over: finally, then the tracking file is read, extended and
\* rewritten; installed.push throws when the parsed value is not an array
InstallFinish ==
    /\ cmd = "install" /\ pc = "install" /\ loop.j > Len(targetAgents)
    /\ LET cleaned == Finally(fs, tempDir)
           tracked == mkdir(cleaned, trackingDir)
       IN  IF IsArray(ReadInstalled(tracked))
           THEN /\ fs' = writeFile(tracked, trackingFile,
                            Append(ReadInstalled(tracked),
                                   TrackingEntry(env.skill, targetAgents)))
                /\ Return("installed")
           ELSE /\ fs' = tracked
                /\ CatchAndExit
    /\ UNCHANGED besidesPlace
    /\ UNCHANGED <<cmd, opts, env, tempDir, skills, selectedSkills, targetAgents,
                   loop, attempted>>

\* what ~/.antigravity/installed.json can hold before a run
TrackingContents ==
    { <<TrackingEntry(sk, <<"cursor">>)>> : sk \in ResolvedSkills }
    \cup { <<TrackingEntry(a, <<"claude">>), TrackingEntry(b, <<"cursor">>)>> :
             a, b \in { sk \in ResolvedSkills : sk.githubUrl = "github" } }
    \cup { JsonObject, NotJson }

\* what is on disk before `install` runs: with or without a tracking file
InstallInitialFs ==
    InitialFs \cup { writeFile(mkdir(EmptyFs, trackingDir), trackingFile, c) :
                        c \in TrackingContents }

InstallNext ==
    \/ InstallBegin
    \/ InstallInvalidUrl
    \/ InstallCloneOk
    \/ InstallCloneFail
    \/ InstallPairSkip
    \/ InstallPairCopy
    \/ InstallPairThrow
    \/ InstallFinish

-----------------------------------------------------------------------------
(* The placement specification: one run of `add` or of `install`           *)

Init ==
    /\ \/ /\ cmd = "add"
          /\ opts \in AddOptions
          /\ env \in [cwd : Cwds, repo : Repos]
       \/ /\ cmd = "install"
          /\ opts \in InstallOptions
          /\ env \in [cwd : Cwds, repo : InstallRepos, skill : ResolvedSkills]
    /\ pc = "start"
    /\ exitCode = "none"
    /\ fs \in IF cmd = "install" THEN InstallInitialFs ELSE InitialFs
    /\ tempDir = << >>
    /\ skills = << >>
    /\ selectedSkills = << >>
    /\ targetAgents = << >>
    /\ loop = [i |-> 1, j |-> 1]
    /\ attempted = {}
    /\ reported = {}
    /\ resolvedSkill = << >>
    /\ remoteCalls = 0
    /\ legacyCalls = 0
    /\ listing = << >>
    /\ loadedSkills = << >>
    /\ exported = << >>
    /\ WizardIdle
    /\ ProcsIdle
    /\ CallIdle
    /\ SourceIdle

Next == AddNext \/ InstallNext

Spec == Init /\ [][Next]_vars

-----------------------------------------------------------------------------
(* Scratch directory cleanup                                               *)

\* nothing is left at or below the scratch directory
ScratchGone == \A p \in fs.dirs \cup DOMAIN fs.files : ~IsPrefix(tempDir, p)

Finished == pc = "done"

\* C1: on every exit path taken after the scratch directory was created,
\* copy failures included, the scratch directory is gone when the command
\* finishes.
C1_ScratchRemovedOnEveryExit == (Finished /\ tempDir # << >>) => ScratchGone

\* C2: in `add`, the scratch directory is absent after the command returns
\* when the install succeeded, when zero skills were discovered and when the
\* clone failed.
C2_AddScratchAbsent ==
    (cmd = "add" /\ Finished /\ reported \cap {"installed", "no-skills", "clone-failed"} # {})
        => (tempDir # << >> /\ ScratchGone)

C2_Witness ==
    /\ cmd = "add" /\ Finished /\ "installed" \in reported
    /\ attempted # {}
    /\ ScratchGone

-----------------------------------------------------------------------------
(* The install loop of `add`                                               *)

AllPairs == (1..Len(selectedSkills)) \X (1..Len(targetAgents))

\* C7: with two skills and three agents selected, all six copies are
\* attempted even if one of them throws.
C7_AllSixAttempted ==
    (/\ cmd = "add" /\ Finished
     /\ Len(selectedSkills) = 2 /\ Len(targetAgents) = 3
     /\ Range(targetAgents) \subseteq DOMAIN AGENTS)
        => attempted = AllPairs

\* the candidate's source folder as the clone delivered it
SourceTree(skill) == Tree(env.repo, Rel(tempDir, skill.path))

AddCompleted == cmd = "add" /\ Finished /\ "installed" \in reported

\* C8 as stated: after `add` completes, every (selected skill, known agent)
\* directory exists and holds every file of the candidate's source folder.
C8_HoldsEveryFile ==
    AddCompleted =>
        \A i \in 1..Len(selectedSkills), j \in 1..Len(targetAgents) :
            targetAgents[j] \in DOMAIN AGENTS =>
                LET skill == selectedSkills[i]
                    dir   == SkillDir(targetAgents[j], opts.global, env.cwd, skill.name)
                IN  /\ dir \in fs.dirs
                    /\ \A r \in DOMAIN SourceTree(skill) :
                          /\ join(dir, r) \in DOMAIN fs.files
                          /\ fs.files[join(dir, r)] = SourceTree(skill)[r]

\* the skill selection step of `add` is behind the run
SkillStepDone ==
    /\ cmd = "add"
    /\ \/ pc \in {"select-agents", "install"}
       \/ pc = "done" /\ reported \cap {"clone-failed", "no-skills", "listed"} = {}

\* the agent selection step of `add` is behind the run
AgentStepDone ==
    /\ cmd = "add"
    /\ \/ pc = "install"
       \/ pc = "done" /\ reported \cap {"clone-failed", "no-skills", "listed",
                                            "no-skill-selected"} = {}

\* the candidates whose name is one of the --skill names, whatever the case
NamedCandidates ==
    { m \in 1..Len(skills) :
        \E k \in 1..Len(opts.skill) : lower(<<skills[m].name>>) = lower(<<opts.skill[k]>>) }

\* the selection rules apart from when the skill prompt is shown
SelectionRules ==
    /\ SkillStepDone =>
          /\ Len(opts.skill) > 0 =>
                /\ Range(selectedSkills) = { skills[m] : m \in NamedCandidates }
                /\ Len(selectedSkills) = Cardinality(NamedCandidates)
                /\ "prompt-skills" \notin reported
          /\ (Len(opts.skill) = 0 /\ opts.yes) =>
                selectedSkills = skills /\ "prompt-skills" \notin reported
    /\ AgentStepDone =>
          /\ Len(opts.agent) > 0 => targetAgents = opts.agent /\ "prompt-agents" \notin reported
          /\ (Len(opts.agent) = 0 /\ opts.yes) =>
                /\ targetAgents = AgentKeys
                /\ Len(targetAgents) = 10
                /\ "prompt-agents" \notin reported
          /\ (Len(opts.agent) = 0 /\ ~opts.yes) => "prompt-agents" \in reported

\* C15 as stated: --skill names select exactly the candidates of that name
\* (case-insensitive), else --yes selects all, else the operator is prompted,
\* for any non-zero number of candidates; agents: --agent list, else all
\* ten under --yes, else a prompt.
C15_SelectionAlwaysPrompts ==
    /\ SelectionRules
    /\ (SkillStepDone /\ Len(opts.skill) = 0 /\ ~opts.yes) => "prompt-skills" \in reported

\* C15 amended: in interactive mode the skill prompt is shown only when
\* there are two or more candidates; a single candidate is selected without
\* a prompt.
C15_SelectionPromptsFromTwo ==
    /\ SelectionRules
    /\ (SkillStepDone /\ Len(opts.skill) = 0 /\ ~opts.yes) =>
          /\ Len(skills) > 1 => "prompt-skills" \in reported
          /\ Len(skills) = 1 => "prompt-skills" \notin reported /\ selectedSkills = skills

C15_Witness ==
    /\ AgentStepDone /\ pc = "install"
    /\ Len(opts.skill) = 0 /\ ~opts.yes /\ Len(opts.agent) = 0
    /\ Len(skills) = 2 /\ Len(selectedSkills) = 1
    /\ reported = {"prompt-skills", "prompt-agents"}

-----------------------------------------------------------------------------
(* Global and project-local targets                                        *)

ProjectRoot(a) == join(env.cwd, AGENTS[a].projectDir)

GlobalRoot(a) == AGENTS[a].globalDir

Nested(p, q) == IsPrefix(p, q) \/ IsPrefix(q, p)

\* the paths at which two filesystems differ
Changed(f, g) ==
    { p \in DOMAIN f.files \cup DOMAIN g.files :
        \/ p \notin DOMAIN f.files
        \/ p \notin DOMAIN g.files
        \/ f.files[p] # g.files[p] }
    \cup { p \in f.dirs \cup g.dirs : p \notin f.dirs \/ p \notin g.dirs }

UnderSome(roots, p) == \E r \in roots : IsPrefix(r, p)

ProjectRoots == { ProjectRoot(a) : a \in DOMAIN AGENTS }

GlobalRoots == { GlobalRoot(a) : a \in DOMAIN AGENTS }

\* a step leaves the directories of the other scope as they were
FrameStep ==
    \A p \in Changed(fs, fs') :
        /\ opts.global => ~UnderSome(ProjectRoots, p)
        /\ ~opts.global => ~UnderSome(GlobalRoots, p)

\* removing one scope's tree of a skill leaves the other scope's tree as it was
DeleteIndependent ==
    \A a \in DOMAIN AGENTS, n \in {"pdf", "xlsx"} :
        LET g == join(GlobalRoot(a), <<n>>)
            l == join(ProjectRoot(a), <<n>>)
        IN  /\ Tree(rm(fs, g), l) = Tree(fs, l)
            /\ Tree(rm(fs, l), g) = Tree(fs, g)

\* no agent's project-local directory lies in, at or above a global one
ScopesApart ==
    \A a \in DOMAIN AGENTS, b \in DOMAIN AGENTS : ~Nested(ProjectRoot(a), GlobalRoot(b))

\* a step of the install is independent of the other scope: it leaves the
\* other scope's directories as they were, and what it placed does not share
\* a tree with the other scope
IndependentStep ==
    /\ FrameStep
    /\ (\E p \in Changed(fs, fs') : UnderSome(ProjectRoots \cup GlobalRoots, p))
          => DeleteIndependent' 

\* C9 as stated: an install with --global leaves every project-local agent
\* directory unchanged, one without leaves every global directory unchanged,
\* and deleting one tree leaves the other intact.
C9_ScopesIndependent == [][IndependentStep]_vars

\* C9 amended: the same, when no project-local agent directory of the
\* current directory lies in, at or above a global agent directory (which
\* fails when the command runs in the home directory).
C9_ScopesIndependentApart == [][ScopesApart => IndependentStep]_vars

C9_Witness ==
    /\ ScopesApart /\ opts.global /\ Finished /\ "installed" \in reported
    /\ \E a \in DOMAIN AGENTS : \E p \in DOMAIN fs.files : IsPrefix(join(GlobalRoot(a), <<"pdf">>), p)
    /\ \E p \in DOMAIN fs.files : UnderSome(ProjectRoots, p)

-----------------------------------------------------------------------------
(* Resolution against the remote index, and the legacy fallback            *)
(*                                                                         *)
(* In this part a string is a sequence of tokens: "@", "/", " " and        *)
(* chunks free of them ("acme", "pdf"); << >> is the empty string.         *)

MaxResponse == 2

SeqsUpTo(S, n) == UNION { [1..k -> S] : k \in 0..n }

RECURSIVE trimStart(_)
trimStart(str) ==
    IF Len(str) > 0 /\ str[1] = " " THEN trimStart(Tail(str)) ELSE str

RECURSIVE trimEnd(_)
trimEnd(str) ==
    IF Len(str) > 0 /\ str[Len(str)] = " " THEN trimEnd(SubSeq(str, 1, Len(str) - 1)) ELSE str

trim(str) == trimEnd(trimStart(str))

\* parseScopedName(input): [hasAuthor, author, name]
parseScopedName(input) ==
    LET noAt    == IF Len(input) > 0 /\ input[1] = "@" THEN Tail(input) ELSE input
        clean   == trim(noAt)
        slashes == { k \in 1..Len(clean) : clean[k] = "/" }
        first   == CHOOSE k \in slashes : \A m \in slashes : k <= m
    IN  IF slashes # {}
        THEN [hasAuthor |-> TRUE,
              author    |-> trim(SubSeq(clean, 1, first - 1)),
              name      |-> trim(SubSeq(clean, first + 1, Len(clean)))]
        ELSE [hasAuthor |-> FALSE, author |-> << >>, name |-> clean]

\* `!author`: undefined or the empty string
NoAuthor(parsed) == ~parsed.hasAuthor \/ parsed.author = << >>

Threw == [threw |-> TRUE, value |-> << >>]

Returned(v) == [threw |-> FALSE, value |-> v]

\* fetchFromDB: a network error, a non-2xx status and a body that is not JSON
\* all surface as one thrown Error; otherwise the parsed body is returned
fetchFromDB(remote) ==
    IF remote.kind \in {"network-error", "http-error", "bad-json"} THEN Threw
    ELSE Returned([hasSkills |-> remote.kind = "ok", skills |-> remote.skills])

\* the last element where the first is meant
last(s) == IF Len(s) > 0 THEN <<s[Len(s)]>> ELSE << >>

\* s[0] as a nullable: << >> when the list is empty
first(s) == IF Len(s) > 0 THEN <<s[1]>> ELSE << >>

\* Array.prototype.find: << >> when nothing matches, else <<the first match>>
\* (the predicate is given as the set of positions that satisfy it)
find(s, hits) ==
    IF hits = {} THEN << >> ELSE <<s[CHOOSE k \in hits : \A m \in hits : k <= m]>>

\* a match that forgets the author
ExactMatchNameOnly(parsed, rec) == lower(rec.name) = lower(parsed.name)

\* s.name.toLowerCase() === name.toLowerCase() &&
\* (!author || s.author.toLowerCase() === author.toLowerCase())
ExactMatch(parsed, rec) ==
    /\ lower(rec.name) = lower(parsed.name)
    /\ (NoAuthor(parsed) \/ lower(rec.author) = lower(parsed.author))

\* the positions of the records the exact match accepts
ExactHits(parsed, recs) == { k \in 1..Len(recs) : ExactMatch(parsed, recs[k]) }

\* a lookup that throws when nothing matches
getSkillByScopedThrowsOnMiss(scopedName, remote) ==
    LET parsed == parseScopedName(scopedName)
        result == fetchFromDB(remote)
        exact  == find(result.value.skills, ExactHits(parsed, result.value.skills))
    IN  IF result.threw \/ ~result.value.hasSkills \/ exact = << >> THEN Threw
        ELSE Returned(exact)

\* getSkillByScoped(scopedName) against what the remote index answers
getSkillByScoped(scopedName, remote) ==
    LET parsed == parseScopedName(scopedName)
        result == fetchFromDB(remote)
        exact  == find(result.value.skills, ExactHits(parsed, result.value.skills))
    IN  IF result.threw THEN Threw
        ELSE IF ~result.value.hasSkills THEN Threw          \* result.skills.find: TypeError
        ELSE IF exact # << >> THEN Returned(exact)
        ELSE IF ~NoAuthor(parsed) THEN Returned(<< >>)
        ELSE Returned(first(result.value.skills))           \* result.skills[0] || null

\* fetchSkillsForCLI: the response's records, in the response's order
fetchSkillsForCLI(remote) ==
    LET result == fetchFromDB(remote)
    IN  IF result.threw THEN Threw
        ELSE IF ~result.value.hasSkills THEN Threw          \* result.skills.map: TypeError
        ELSE Returned(result.value.skills)

\* the fallback of `install`: skills.find(exact match) || skills[0]
LegacyPick(parsed, legacy) ==
    LET exact == find(legacy, ExactHits(parsed, legacy))
    IN  IF exact # << >> THEN exact ELSE first(legacy)

\* skills.slice(0, limit)
slice(s, limit) == SubSeq(s, 1, IF Len(s) < limit THEN Len(s) ELSE limit)

DBRecords == [name : { <<"pdf">>, <<"PDF">>, <<"xlsx">> }, author : { <<"acme">>, <<"other">> }]

\* a legacy skill may carry no author
LegacyRecords == [name : { <<"pdf">>, <<"xlsx">> }, author : { <<"Acme">>, <<"other">>, << >> }]

RemoteAnswers ==
    [kind : {"network-error", "http-error", "bad-json", "no-skills-field"}, skills : { << >> }]
    \cup [kind : {"ok"}, skills : SeqsUpTo(DBRecords, MaxResponse)]

LegacyAnswers == SeqsUpTo(LegacyRecords, MaxResponse)

ScopedNames ==
    { <<"pdf">>, <<"Pdf">>, <<"docs">>,
      <<"@", "acme", "/", "pdf">>, <<"ACME", "/", "PDF">>,
      <<"@", " ", "acme", " ", "/", " ", "pdf", " ">>,
      <<"/", "pdf">>, <<"@", "nobody", "/", "pdf">> }

ListingCommands == {"market-list", "market-search", "wizard"}

ResolveOptions(c) ==
    IF c = "install" THEN [scopedName : ScopedNames]
    ELSE IF c = "market-list" THEN [legacy : BOOLEAN, limit : {1, 50}]
    ELSE IF c = "market-search" THEN [limit : {1, 20}]
    ELSE [limit : {100}]

\* market-list --legacy reads the GitHub sources and never asks the remote index
LegacyMode == cmd = "market-list" /\ opts.legacy

\* the try block of `install`
InstallResolve ==
    /\ cmd = "install" /\ pc = "start"
    /\ remoteCalls' = remoteCalls + 1
    /\ LET got == getSkillByScoped(opts.scopedName, env.remote)
       IN  IF got.threw
           THEN /\ pc' = "fallback"
                /\ UNCHANGED <<resolvedSkill, exitCode, reported>>
           ELSE /\ resolvedSkill' = got.value
                /\ IF got.value = << >> THEN Return("not-found") ELSE Return("found")
    /\ UNCHANGED besidesResolve
    /\ UNCHANGED <<cmd, opts, env, legacyCalls, listing>>

\* the catch block of `install`: searchSkills(name), exact match or the first
InstallFallback ==
    /\ cmd = "install" /\ pc = "fallback"
    /\ legacyCalls' = legacyCalls + 1
    /\ \E legacy \in LegacyAnswers :
          /\ resolvedSkill' = LegacyPick(parseScopedName(opts.scopedName), legacy)
          /\ IF resolvedSkill' = << >> THEN Return("not-found") ELSE Return("found")
    /\ UNCHANGED besidesResolve
    /\ UNCHANGED <<cmd, opts, env, remoteCalls, listing>>

\* market-list --legacy
ListLegacyMode ==
    /\ LegacyMode /\ pc = "start"
    /\ legacyCalls' = legacyCalls + 1
    /\ \E legacy \in LegacyAnswers :
          /\ listing' = legacy
          /\ IF Len(legacy) = 0 THEN Return("no-skills") ELSE Return("listed")
    /\ UNCHANGED besidesResolve
    /\ UNCHANGED <<cmd, opts, env, remoteCalls, resolvedSkill>>

\* the try block of market-list, market-search and the wizard's listing
ListRemote ==
    /\ cmd \in ListingCommands /\ ~LegacyMode /\ pc = "start"
    /\ remoteCalls' = remoteCalls + 1
    /\ LET got == fetchSkillsForCLI(env.remote)
       IN  IF got.threw
           THEN /\ pc' = "fallback"
                /\ UNCHANGED <<listing, exitCode, reported>>
           ELSE /\ listing' = got.value
                /\ IF Len(got.value) = 0 /\ cmd # "market-list"
                   THEN Return("no-skills") ELSE Return("listed")
    /\ UNCHANGED besidesResolve
    /\ UNCHANGED <<cmd, opts, env, legacyCalls, resolvedSkill>>

\* their catch block: listMarketplaceSkills() or searchSkills(query)
ListFallback ==
    /\ cmd \in ListingCommands /\ pc = "fallback"
    /\ legacyCalls' = legacyCalls + 1
    /\ \E legacy \in LegacyAnswers :
          /\ listing' = IF cmd = "wizard" THEN legacy ELSE slice(legacy, opts.limit)
          /\ IF Len(listing') = 0 /\ cmd # "market-list"
             THEN Return("no-skills") ELSE Return("listed")
    /\ UNCHANGED besidesResolve
    /\ UNCHANGED <<cmd, opts, env, remoteCalls, resolvedSkill>>

ResolveInit ==
    /\ cmd \in {"install"} \cup ListingCommands
    /\ opts \in ResolveOptions(cmd)
    /\ env \in [remote : RemoteAnswers]
    /\ pc = "start"
    /\ exitCode = "none"
    /\ reported = {}
    /\ resolvedSkill = << >>
    /\ remoteCalls = 0
    /\ legacyCalls = 0
    /\ listing = << >>
    /\ loadedSkills = << >>
    /\ exported = << >>
    /\ WizardIdle
    /\ ProcsIdle
    /\ CallIdle
    /\ SourceIdle
    /\ fs = EmptyFs
    /\ tempDir = << >>
    /\ skills = << >>
    /\ selectedSkills = << >>
    /\ targetAgents = << >>
    /\ loop = [i |-> 1, j |-> 1]
    /\ attempted = {}

ResolveNext ==
    \/ InstallResolve
    \/ InstallFallback
    \/ ListLegacyMode
    \/ ListRemote
    \/ ListFallback

SpecResolve == ResolveInit /\ [][ResolveNext]_vars

-----------------------------------------------------------------------------
(* Claims about resolution                                                 *)

Parsed == parseScopedName(opts.scopedName)

\* `install` finished with the remote index having answered
AnsweredByIndex == cmd = "install" /\ Finished /\ legacyCalls = 0

\* the positions of the response whose record has the requested name
\* (and, with an author, the requested author), compared case-insensitively
NameHits == { k \in 1..Len(env.remote.skills) : lower(env.remote.skills[k].name) = lower(Parsed.name) }

ScopedHits == { k \in NameHits : lower(env.remote.skills[k].author) = lower(Parsed.author) }

\* C3: with an author, getSkillByScoped returns null or a record with that
\* name and that author (case-insensitively); null when the name exists only
\* under other authors; the record when exactly one matches.
C3_ScopedExact ==
    (AnsweredByIndex /\ ~NoAuthor(Parsed)) =>
        /\ resolvedSkill # << >> =>
              /\ lower(resolvedSkill[1].name) = lower(Parsed.name)
              /\ lower(resolvedSkill[1].author) = lower(Parsed.author)
        /\ ScopedHits = {} => resolvedSkill = << >>
        /\ \A k \in ScopedHits : ScopedHits = {k} => resolvedSkill = <<env.remote.skills[k]>>

C3_Witness ==
    /\ AnsweredByIndex /\ ~NoAuthor(Parsed)
    /\ NameHits # {} /\ ScopedHits = {}
    /\ resolvedSkill = << >>
    /\ "not-found" \in reported

\* C4: without an author, getSkillByScoped returns the first record of the
\* response that has the name; the first record of the response when none
\* has it; null only when the response is empty.
C4_UnscopedFirst ==
    (AnsweredByIndex /\ NoAuthor(Parsed)) =>
        /\ \A k \in NameHits :
              (\A m \in NameHits : k <= m) => resolvedSkill = <<env.remote.skills[k]>>
        /\ (NameHits = {} /\ Len(env.remote.skills) > 0) => resolvedSkill = <<env.remote.skills[1]>>
        /\ resolvedSkill = << >> <=> Len(env.remote.skills) = 0

C4_Witness ==
    /\ AnsweredByIndex /\ NoAuthor(Parsed)
    /\ Cardinality(NameHits) = 2
    /\ env.remote.skills[1].author # env.remote.skills[2].author
    /\ resolvedSkill = <<env.remote.skills[1]>>

ResolvingCommand == cmd \in {"install"} \cup ListingCommands /\ ~LegacyMode

C6_NeverAnotherAuthor ==
    (cmd = "install" /\ Finished /\ ~NoAuthor(Parsed) /\ resolvedSkill # << >>) =>
        /\ lower(resolvedSkill[1].name) = lower(Parsed.name)
        /\ lower(resolvedSkill[1].author) = lower(Parsed.author)

-----------------------------------------------------------------------------
(* The export adapters                                                     *)
(*                                                                         *)
(* In this part the value of a content line is a sequence: a description   *)
(* is a sequence of characters, a name or a body a one-element sequence.   *)

MaxLoaded == 2

MaxRuns == 2

\* the length description.slice(0, 100) cuts to
DescriptionCut == 100

RECURSIVE Repeat(_, _)
Repeat(c, n) == IF n = 0 THEN << >> ELSE <<c>> \o Repeat(c, n - 1)

\* the skills loadSkill can return: a short description, one with a line
\* break, and one longer than the cut
LoadableSkills ==
    { [metadata |-> [name |-> "pdf",  description |-> <<"d">>, license |-> "MIT"],
       body |-> "b1"],
      [metadata |-> [name |-> "pdf",  description |-> Repeat("x", DescriptionCut + 1),
                     license |-> "MIT"],
       body |-> "b2"],
      [metadata |-> [name |-> "xlsx", description |-> <<"a", "\n", "b">>, license |-> "MIT"],
       body |-> "b1"] }

\* ---\nname: ..\ndescription: ..\n---\n\n<body>\n
SkillMdContent(sk) ==
    <<Line("---", << >>),
      Line("name", <<sk.metadata.name>>),
      Line("description", sk.metadata.description),
      Line("---", << >>),
      Line("", << >>),
      Line("body", <<sk.body>>)>>

\* ---\ndescription: <first 100 characters>\n---\n\n<body>\n
WorkflowContent(sk) ==
    <<Line("---", << >>),
      Line("description", slice(sk.metadata.description, DescriptionCut)),
      Line("---", << >>),
      Line("", << >>),
      Line("body", <<sk.body>>)>>

\* appendFile(p, c): the content is added to what the file held
appendFile(f, p, c) ==
    writeFile(f, p, IF p \in DOMAIN f.files THEN f.files[p] \o c ELSE c)

\* the loop of a directory-style adapter that appends instead of writing
RECURSIVE AppendSkillDirs(_, _, _, _)
AppendSkillDirs(f, loaded, k, agentDir) ==
    IF k > Len(loaded) THEN f
    ELSE LET skillDir == join(agentDir, <<loaded[k].metadata.name>>)
         IN  AppendSkillDirs(appendFile(mkdir(f, skillDir), join(skillDir, <<"SKILL.md">>),
                                        SkillMdContent(loaded[k])),
                             loaded, k + 1, agentDir)

\* the loop of a directory-style adapter: mkdir(skillDir), writeFile(skillDir/SKILL.md)
RECURSIVE WriteSkillDirs(_, _, _, _)
WriteSkillDirs(f, loaded, k, agentDir) ==
    IF k > Len(loaded) THEN f
    ELSE LET skillDir == join(agentDir, <<loaded[k].metadata.name>>)
         IN  WriteSkillDirs(writeFile(mkdir(f, skillDir), join(skillDir, <<"SKILL.md">>),
                                      SkillMdContent(loaded[k])),
                            loaded, k + 1, agentDir)

exportToCopilot(f, loaded, projectDir) ==
    LET copilotDir == join(projectDir, <<".github", "skills">>)
    IN  WriteSkillDirs(mkdir(f, copilotDir), loaded, 1, copilotDir)

exportToCursor(f, loaded, projectDir) ==
    LET cursorDir == join(projectDir, <<".cursor", "skills">>)
    IN  WriteSkillDirs(mkdir(f, cursorDir), loaded, 1, cursorDir)

exportToClaude(f, loaded, projectDir) ==
    LET claudeDir == join(projectDir, <<".claude", "skills">>)
    IN  WriteSkillDirs(mkdir(f, claudeDir), loaded, 1, claudeDir)

exportToCodex(f, loaded, projectDir) ==
    LET codexDir == join(projectDir, <<".codex", "skills">>)
    IN  WriteSkillDirs(mkdir(f, codexDir), loaded, 1, codexDir)

RECURSIVE WriteWorkflows(_, _, _, _)
WriteWorkflows(f, loaded, k, workflowsDir) ==
    IF k > Len(loaded) THEN f
    ELSE WriteWorkflows(writeFile(f, join(workflowsDir, <<loaded[k].metadata.name \o ".md">>),
                                  WorkflowContent(loaded[k])),
                        loaded, k + 1, workflowsDir)

exportToAntigravity(f, loaded, projectDir) ==
    LET workflowsDir == join(projectDir, <<".agent", "workflows">>)
    IN  WriteWorkflows(mkdir(f, workflowsDir), loaded, 1, workflowsDir)

ExportTargets == {"copilot", "cursor", "claude", "codex", "antigravity"}

\* the switch of exportToAgent
exportToAgent(target, f, loaded, projectDir) ==
    CASE target = "copilot"     -> exportToCopilot(f, loaded, projectDir)
      [] target = "cursor"      -> exportToCursor(f, loaded, projectDir)
      [] target = "claude"      -> exportToClaude(f, loaded, projectDir)
      [] target = "codex"       -> exportToCodex(f, loaded, projectDir)
      [] target = "antigravity" -> exportToAntigravity(f, loaded, projectDir)

\* files an earlier export of other skill versions left behind
FsEarlierExport ==
    LET old == [metadata |-> [name |-> "pdf", description |-> <<"o">>], body |-> "b0"]
    IN  exportToAntigravity(exportToCopilot(EmptyFs, <<old, old>>, <<"proj">>), <<old>>, <<"proj">>)

\* one run of one adapter on the loaded skills
ExportRun ==
    /\ cmd = "export" /\ pc = "start"
    /\ Len(exported) < MaxRuns
    /\ \E target \in ExportTargets :
          /\ fs' = exportToAgent(target, fs, loadedSkills, opts.directory)
          /\ exported' = Append(exported, target)
    /\ UNCHANGED <<besidesExport, tempDir, skills, selectedSkills, targetAgents, loop, attempted>>
    /\ UNCHANGED <<cmd, pc, exitCode, opts, env, reported, loadedSkills>>

\* the `sync` command: the workflow files of the skills the name option keeps
\* (no name, or --all: every skill)
toSync(loaded, o) ==
    IF Len(o.name) > 0
    THEN filter(loaded, { m \in 1..Len(loaded) : loaded[m].metadata.name = o.name[1] })
    ELSE loaded

SyncRun ==
    /\ cmd = "export" /\ pc = "start"
    /\ Len(exported) < MaxRuns
    /\ LET workflowsDir == join(opts.directory, <<".agent", "workflows">>)
           made == mkdir(fs, workflowsDir)
       IN  fs' = IF Len(loadedSkills) = 0 \/ Len(toSync(loadedSkills, opts)) = 0 THEN made
                 ELSE WriteWorkflows(made, toSync(loadedSkills, opts), 1, workflowsDir)
    /\ exported' = Append(exported, "sync")
    /\ UNCHANGED <<besidesExport, tempDir, skills, selectedSkills, targetAgents, loop, attempted>>
    /\ UNCHANGED <<cmd, pc, exitCode, opts, env, reported, loadedSkills>>

ExportInit ==
    /\ cmd = "export"
    /\ pc = "start"
    /\ exitCode = "none"
    /\ opts \in [directory : {<<"proj">>}, name : {<< >>, <<"pdf">>}]
    /\ env = [cwd |-> <<"home">>]
    /\ fs \in { EmptyFs, FsEarlierExport }
    /\ loadedSkills \in SeqsUpTo(LoadableSkills, MaxLoaded)
    /\ exported = << >>
    /\ WizardIdle
    /\ ProcsIdle
    /\ CallIdle
    /\ SourceIdle
    /\ reported = {}
    /\ resolvedSkill = << >>
    /\ remoteCalls = 0
    /\ legacyCalls = 0
    /\ listing = << >>
    /\ tempDir = << >>
    /\ skills = << >>
    /\ selectedSkills = << >>
    /\ targetAgents = << >>
    /\ loop = [i |-> 1, j |-> 1]
    /\ attempted = {}

ExportNext == ExportRun \/ SyncRun

SpecExport == ExportInit /\ [][ExportNext]_vars

\* an adapter runs again right after it ran
RunsAgain == Len(exported) > 0 /\ exported' = Append(exported, exported[Len(exported)])

\* C10: running an export adapter twice in succession on the same loaded
\* skills leaves the filesystem after the second run identical to the
\* filesystem after the first.
C10_ExportIdempotent == [][RunsAgain => fs' = fs]_vars

C10_Witness ==
    /\ Len(exported) = 2 /\ exported[1] = exported[2]
    /\ Len(loadedSkills) = 2
    /\ loadedSkills[1].metadata.name = loadedSkills[2].metadata.name
    /\ loadedSkills[1] # loadedSkills[2]
    /\ \E p \in DOMAIN fs.files : IsPrefix(opts.directory, p)

-----------------------------------------------------------------------------
(* What the written files hold                                             *)

\* a value cut at its line breaks
SplitLines(v) ==
    LET breaks   == { n \in 1..Len(v) : v[n] = "\n" }
        Break(j) == CHOOSE n \in breaks : Cardinality({ m \in breaks : m < n }) = j - 1
        count    == Cardinality(breaks) + 1
    IN  [j \in 1..count |->
            SubSeq(v, IF j = 1 THEN 1 ELSE Break(j - 1) + 1,
                      IF j = count THEN Len(v) ELSE Break(j) - 1)]

\* the lines of a file as a reader sees them: a value with a line break
\* continues on lines of its own, which carry no key
RECURSIVE PhysicalLines(_)
PhysicalLines(content) ==
    IF Len(content) = 0 THEN << >>
    ELSE LET parts == SplitLines(Head(content).v)
         IN  <<Line(Head(content).k, parts[1])>>
             \o [n \in 1..(Len(parts) - 1) |-> Line("", parts[n + 1])]
             \o PhysicalLines(Tail(content))

\* the lines between the opening fence and the next fence
FrontMatter(content) ==
    LET lines  == PhysicalLines(content)
        fences == { n \in 2..Len(lines) : lines[n].k = "---" }
        close  == CHOOSE n \in fences : \A m \in fences : n <= m
    IN  IF Len(lines) = 0 \/ lines[1].k # "---" \/ fences = {} THEN << >>
        ELSE SubSeq(lines, 2, close - 1)

FrontMatterKeys(content) == [n \in 1..Len(FrontMatter(content)) |-> FrontMatter(content)[n].k]

\* the text after the closing fence and the blank line
BodyOf(content) ==
    LET lines == PhysicalLines(content)
        n     == Len(FrontMatter(content)) + 3
    IN  SubSeq(lines, n + 1, Len(lines))

DirectoryTargets == {"copilot", "cursor", "claude", "codex"}

\* the skills directory of a directory-style target, below the project root
ExportDirOf(target) ==
    CASE target = "copilot" -> <<".github", "skills">>
      [] target = "cursor"  -> <<".cursor", "skills">>
      [] target = "claude"  -> <<".claude", "skills">>
      [] target = "codex"   -> <<".codex", "skills">>

Ran(target) == \E n \in 1..Len(exported) : exported[n] = target

\* C11: after a directory-style adapter ran, every loaded skill has a file
\* <agent skills dir>/<name>/SKILL.md whose front-matter holds exactly the
\* keys name and description, with the skill's values, and whose body is the
\* skill's body; no license key appears.
C11_DirectoryAdapterOutput ==
    \A target \in DirectoryTargets :
        Ran(target) =>
            \A i \in 1..Len(loadedSkills) :
                LET sk == loadedSkills[i]
                    p  == join(opts.directory,
                               ExportDirOf(target) \o <<sk.metadata.name, "SKILL.md">>)
                IN  /\ p \in DOMAIN fs.files
                    /\ FrontMatterKeys(fs.files[p]) = <<"name", "description">>
                    /\ FrontMatter(fs.files[p])[1].v = <<sk.metadata.name>>
                    /\ FrontMatter(fs.files[p])[2].v = sk.metadata.description
                    /\ BodyOf(fs.files[p]) = <<Line("body", <<sk.body>>)>>

\* C12: after the antigravity adapter or `sync` ran, every skill it wrote
\* has a flat file .agent/workflows/<name>.md whose front-matter is one
\* description line of at most 100 characters without a line break.
C12_WorkflowDescriptionOneLine ==
    \A i \in 1..Len(loadedSkills) :
        LET sk == loadedSkills[i]
            p  == join(opts.directory, <<".agent", "workflows", sk.metadata.name \o ".md">>)
        IN  (Ran("antigravity") \/ (Ran("sync") /\ sk \in Range(toSync(loadedSkills, opts))))
                => /\ p \in DOMAIN fs.files
                   /\ FrontMatterKeys(fs.files[p]) = <<"description">>
                   /\ Len(FrontMatter(fs.files[p])[1].v) <= DescriptionCut
                   /\ \A n \in 1..Len(fs.files[p]) :
                         fs.files[p][n].k = "description" =>
                             \A c \in 1..Len(fs.files[p][n].v) : fs.files[p][n].v[c] # "\n"

-----------------------------------------------------------------------------
(* Source classification of `add`                                          *)
(*                                                                         *)
(* In this part a string is a sequence of characters.                      *)

GITHUB == <<"g", "i", "t", "h", "u", "b", ".", "c", "o", "m">>

GITLAB == <<"g", "i", "t", "l", "a", "b", ".", "c", "o", "m">>

HTTPS == <<"h", "t", "t", "p", "s", ":", "/", "/">>

TREE == <<"t", "r", "e", "e">>

DOTGIT == <<".", "g", "i", "t">>

\* the literal lit stands in str at position i
StartsAt(str, i, lit) ==
    /\ i >= 1
    /\ i + Len(lit) - 1 <= Len(str)
    /\ SubSeq(str, i, i + Len(lit) - 1) = lit

\* [^/]+ from position i: the end of the longest run without a slash
\* (i - 1 when the run is empty)
RunEnd(str, i) ==
    LET stops == { n \in i..Len(str) : str[n] = "/" }
    IN  IF stops = {} THEN Len(str) ELSE (CHOOSE n \in stops : \A m \in stops : n <= m) - 1

includes(str, c) == \E n \in 1..Len(str) : str[n] = c

\* repo.replace(/\.git$/, '')
StripDotGit(repo) ==
    IF StartsAt(repo, Len(repo) - Len(DOTGIT) + 1, DOTGIT)
    THEN SubSeq(repo, 1, Len(repo) - Len(DOTGIT))
    ELSE repo

\* <host>\/([^/]+)\/([^/]+) tried at position i: << >> or <<[owner, repo, next]>>,
\* next the position after the match
HostRepoAt(str, i, host) ==
    LET a        == i + Len(host) + 1
        ownerEnd == RunEnd(str, a)
        b        == ownerEnd + 2
        repoEnd  == RunEnd(str, b)
    IN  IF /\ StartsAt(str, i, host \o <<"/">>)
           /\ ownerEnd >= a
           /\ ownerEnd < Len(str)
           /\ repoEnd >= b
        THEN <<[owner |-> SubSeq(str, a, ownerEnd), repo |-> SubSeq(str, b, repoEnd),
                next |-> repoEnd + 1]>>
        ELSE << >>

\* github\.com\/([^/]+)\/([^/]+)\/tree\/([^/]+)\/(.+) tried at position i
TreeAt(str, i) ==
    LET m         == HostRepoAt(str, i, GITHUB)
        c         == m[1].next + Len(TREE) + 2
        branchEnd == RunEnd(str, c)
    IN  IF /\ m # << >>
           /\ StartsAt(str, m[1].next, <<"/">> \o TREE \o <<"/">>)
           /\ branchEnd >= c
           /\ branchEnd + 2 <= Len(str)
        THEN <<[owner |-> m[1].owner, repo |-> m[1].repo,
                branch |-> SubSeq(str, c, branchEnd),
                subpath |-> SubSeq(str, branchEnd + 2, Len(str))]>>
        ELSE << >>

\* String.prototype.match of an unanchored pattern: the leftmost position
\* at which it matches, 0 when there is none
Leftmost(S) == IF S = {} THEN 0 ELSE CHOOSE n \in S : \A m \in S : n <= m

\* ^([^/]+)\/([^/]+)(?:\/(.+))?$
ShorthandMatch(str) ==
    LET ownerEnd == RunEnd(str, 1)
        b        == ownerEnd + 2
        repoEnd  == RunEnd(str, b)
    IN  IF /\ ownerEnd >= 1
           /\ ownerEnd < Len(str)
           /\ repoEnd >= b
           /\ repoEnd # Len(str) - 1
        THEN <<[owner |-> SubSeq(str, 1, ownerEnd), repo |-> SubSeq(str, b, repoEnd),
                subpath |-> SubSeq(str, repoEnd + 2, Len(str))]>>
        ELSE << >>

GithubUrl(owner, repo) == HTTPS \o GITHUB \o <<"/">> \o owner \o <<"/">> \o repo \o DOTGIT

GitlabUrl(owner, repo) == HTTPS \o GITLAB \o <<"/">> \o owner \o <<"/">> \o repo \o DOTGIT

\* a shorthand rule that forgets the colon test
parseSourceNoColonTest(input) ==
    LET treeAt   == Leftmost({ i \in 1..Len(input) : TreeAt(input, i) # << >> })
        githubAt == Leftmost({ i \in 1..Len(input) : HostRepoAt(input, i, GITHUB) # << >> })
        gitlabAt == Leftmost({ i \in 1..Len(input) : HostRepoAt(input, i, GITLAB) # << >> })
        tree     == TreeAt(input, treeAt)[1]
        github   == HostRepoAt(input, githubAt, GITHUB)[1]
        gitlab   == HostRepoAt(input, gitlabAt, GITLAB)[1]
        short    == ShorthandMatch(input)
    IN  IF treeAt # 0
        THEN [type |-> "github", url |-> GithubUrl(tree.owner, tree.repo),
              subpath |-> tree.subpath]
        ELSE IF githubAt # 0
        THEN [type |-> "github", url |-> GithubUrl(github.owner, StripDotGit(github.repo)),
              subpath |-> << >>]
        ELSE IF gitlabAt # 0
        THEN [type |-> "gitlab", url |-> GitlabUrl(gitlab.owner, StripDotGit(gitlab.repo)),
              subpath |-> << >>]
        ELSE IF short # << >>
        THEN [type |-> "github", url |-> GithubUrl(short[1].owner, short[1].repo),
              subpath |-> short[1].subpath]
        ELSE [type |-> "git", url |-> input, subpath |-> << >>]

\* parseSource: subpath << >> stands for undefined
parseSource(input) ==
    LET treeAt   == Leftmost({ i \in 1..Len(input) : TreeAt(input, i) # << >> })
        githubAt == Leftmost({ i \in 1..Len(input) : HostRepoAt(input, i, GITHUB) # << >> })
        gitlabAt == Leftmost({ i \in 1..Len(input) : HostRepoAt(input, i, GITLAB) # << >> })
        tree     == TreeAt(input, treeAt)[1]
        github   == HostRepoAt(input, githubAt, GITHUB)[1]
        gitlab   == HostRepoAt(input, gitlabAt, GITLAB)[1]
        short    == ShorthandMatch(input)
    IN  IF treeAt # 0
        THEN [type |-> "github", url |-> GithubUrl(tree.owner, tree.repo),
              subpath |-> tree.subpath]
        ELSE IF githubAt # 0
        THEN [type |-> "github", url |-> GithubUrl(github.owner, StripDotGit(github.repo)),
              subpath |-> << >>]
        ELSE IF gitlabAt # 0
        THEN [type |-> "gitlab", url |-> GitlabUrl(gitlab.owner, StripDotGit(gitlab.repo)),
              subpath |-> << >>]
        ELSE IF short # << >> /\ ~includes(input, ":")
        THEN [type |-> "github", url |-> GithubUrl(short[1].owner, short[1].repo),
              subpath |-> short[1].subpath]
        ELSE [type |-> "git", url |-> input, subpath |-> << >>]

\* the forms of <source> the operator can type, and what is meant by each
SourceForms ==
    {"shorthand", "shorthand-path", "repo-url", "repo-url-git", "tree-url", "gitlab-url",
     "both-hosts", "ssh", "other-url", "colon-shorthand", "word"}

SourceParts ==
    [form   : SourceForms,
     owner  : {<<"o">>, <<"a", "c">>},
     repo   : {<<"r">>, <<"s", "k">>},
     branch : {<<"b">>, <<"v", "2">>},
     path   : {<<"p">>, <<"p", "/", "q">>}]

\* the text typed for a form
Render(e) ==
    LET or == e.owner \o <<"/">> \o e.repo
    IN  CASE e.form = "shorthand"       -> or
          [] e.form = "shorthand-path"  -> or \o <<"/">> \o e.path
          [] e.form = "repo-url"        -> HTTPS \o GITHUB \o <<"/">> \o or
          [] e.form = "repo-url-git"    -> HTTPS \o GITHUB \o <<"/">> \o or \o DOTGIT
          [] e.form = "tree-url"        -> HTTPS \o GITHUB \o <<"/">> \o or \o <<"/">> \o TREE
                                              \o <<"/">> \o e.branch \o <<"/">> \o e.path
          [] e.form = "gitlab-url"      -> HTTPS \o GITLAB \o <<"/">> \o or
          [] e.form = "both-hosts"      -> HTTPS \o GITLAB \o <<"/">> \o GITHUB \o <<"/">> \o or
          [] e.form = "ssh"             -> <<"g", "i", "t", "@">> \o GITHUB \o <<":">> \o or \o DOTGIT
          [] e.form = "other-url"       -> HTTPS \o <<"x", ".", "i", "o", "/">> \o or \o DOTGIT
          [] e.form = "colon-shorthand" -> <<"h", ":">> \o or
          [] e.form = "word"            -> e.repo

\* const parsed = parseSource(source)
AddParseSource ==
    /\ cmd = "add" /\ pc = "parse"
    /\ parsedSource' = <<parseSource(sourceArg)>>
    /\ pc' = "clone-command"
    /\ UNCHANGED besidesSource
    /\ UNCHANGED <<cmd, exitCode, opts, env, reported, sourceArg, cloneCommand>>

\* execAsync(`git clone --depth 1 ${parsed.url} .`, { cwd: tempDir })
AddCloneCommand ==
    /\ cmd = "add" /\ pc = "clone-command"
    /\ cloneCommand' = <<[program |-> "git", args |-> <<"clone", "--depth", "1">>,
                          url |-> parsedSource[1].url, into |-> "."]>>
    /\ pc' = "done"
    /\ UNCHANGED besidesSource
    /\ UNCHANGED <<cmd, exitCode, opts, env, reported, sourceArg, parsedSource>>

SourceInit ==
    /\ cmd = "add"
    /\ pc = "parse"
    /\ exitCode = "none"
    /\ opts = << >>
    /\ env \in SourceParts
    /\ sourceArg = Render(env)
    /\ parsedSource = << >>
    /\ cloneCommand = << >>
    /\ fs = EmptyFs
    /\ reported = {}
    /\ resolvedSkill = << >>
    /\ remoteCalls = 0
    /\ legacyCalls = 0
    /\ listing = << >>
    /\ loadedSkills = << >>
    /\ exported = << >>
    /\ WizardIdle
    /\ ProcsIdle
    /\ CallIdle
    /\ tempDir = << >>
    /\ skills = << >>
    /\ selectedSkills = << >>
    /\ targetAgents = << >>
    /\ loop = [i |-> 1, j |-> 1]
    /\ attempted = {}

SourceNext == AddParseSource \/ AddCloneCommand

SpecSource == SourceInit /\ [][SourceNext]_vars

Result == parsedSource[1]

\* C13: an input of the form owner/repo, https://github.com/owner/repo or
\* https://github.com/owner/repo/tree/branch/path is classified github with
\* the clone URL of exactly that owner and repo, and the tree form carries
\* its subpath and its branch into the result used for the clone.
C13_GithubFormsExtracted ==
    (parsedSource # << >> /\ env.form \in {"shorthand", "repo-url", "tree-url"}) =>
        /\ Result.type = "github"
        /\ Result.url = GithubUrl(env.owner, env.repo)
        /\ env.form = "tree-url" =>
              /\ Result.subpath = env.path
              /\ "branch" \in DOMAIN Result
              /\ Result.branch = env.branch

\* C14: the first matching rule wins (tree URL, repo URL, GitLab URL,
\* shorthand, raw git URL), and an input with a colon that matches none of
\* the three URL rules is classified git with its url unchanged.
C14_OrderedRulesColonFallsThrough ==
    parsedSource # << >> =>
        /\ env.form = "tree-url" => Result.type = "github" /\ Result.subpath = env.path
        /\ env.form \in {"repo-url", "repo-url-git", "both-hosts"} =>
              Result = [type |-> "github", url |-> GithubUrl(env.owner, env.repo),
                        subpath |-> << >>]
        /\ env.form = "gitlab-url" =>
              Result = [type |-> "gitlab", url |-> GitlabUrl(env.owner, env.repo),
                        subpath |-> << >>]
        /\ env.form = "shorthand-path" =>
              Result = [type |-> "github", url |-> GithubUrl(env.owner, env.repo),
                        subpath |-> env.path]
        /\ env.form \in {"ssh", "other-url", "colon-shorthand", "word"} =>
              Result = [type |-> "git", url |-> sourceArg, subpath |-> << >>]

C14_Witness ==
    /\ parsedSource # << >>
    /\ env.form = "ssh"
    /\ includes(sourceArg, ":")
    /\ ShorthandMatch(sourceArg) # << >>
    /\ cloneCommand # << >>
    /\ cloneCommand[1].url = sourceArg

-----------------------------------------------------------------------------
(* The interactive wizard: the installs Promise.all runs side by side      *)

MaxSelected == 2

\* the values of Date.now() during a run: one millisecond and the next
Instants == {1, 2}

\* what the operator can tick in the skill list
WizardChoices ==
    { [name |-> "pdf",  scopedName |-> "acme/pdf"],
      [name |-> "pdf",  scopedName |-> "other/pdf"],
      [name |-> "xlsx", scopedName |-> "acme/xlsx"] }

\* the checkbox returns each ticked entry once; with nothing ticked the wizard
\* ends before any install
WizardSelections ==
    { sel \in SeqsUpTo(WizardChoices, MaxSelected) :
        /\ sel # << >>
        /\ \A a, b \in 1..Len(sel) : a # b => sel[a] # sel[b] }

\* the records the index can hold under a scoped name
IndexRecords(scopedName) ==
    CASE scopedName = "acme/pdf" ->
            { [name |-> "pdf", scoped_name |-> scopedName, githubUrl |-> "github",
               path |-> <<"skills", "pdf", "SKILL.md">>] }
      [] scopedName = "other/pdf" ->
            { [name |-> "pdf", scoped_name |-> scopedName, githubUrl |-> "github",
               path |-> <<"skills", "pdf">>] }
      [] scopedName = "acme/xlsx" ->
            { [name |-> "xlsx", scoped_name |-> scopedName, githubUrl |-> url,
               path |-> <<"skills", "xlsx">>] : url \in {"", "elsewhere"} }

RepoOther ==
    MkTree((<<"skills", "pdf", "SKILL.md">> :> SkillMd("pdf", "d9", "b9"))
        @@ (<<"skills", "pdf", "other.py">> :> Text("py9")))

\* what the clone of a record's repository delivers
RepoOf(rec) == IF rec.scoped_name = "other/pdf" THEN RepoOther ELSE RepoOne

\* the outcomes of getSkillByScoped(skill.scopedName || skill.name)
Lookups(choice) ==
    {Threw, Returned(<< >>)} \cup { Returned(<<rec>>) : rec \in IndexRecords(choice.scopedName) }

\* join(tmpdir(), `skill-${Date.now()}-${Math.random().toString(36).slice(2)}`)
WizardTempDir(now, rand) ==
    join(tmpdir, <<"skill-" \o ToString(now) \o "-" \o ToString(rand)>>)

NewTask ==
    [pc |-> "resolve", db |-> << >>, tempDir |-> << >>, now |-> 0, rand |-> 0, k |-> 1,
     failure |-> "", wrote |-> {}, result |-> << >>]

\* return { success: false, name: skill.name, error }
Failed(t, choice, error) ==
    [t EXCEPT !.pc = "returned",
              !.result = <<[success |-> FALSE, name |-> choice.name, error |-> error]>>]

TaskIds == 1..Len(tasks)

\* one promise of the array is fulfilled
AnySettled == \E i \in TaskIds : tasks[i].pc = "returned"

\* Promise.all(...) resolves: every promise of the array is fulfilled
AllSettled == \A i \in TaskIds : tasks[i].pc = "returned"

\* selectedSkills.map(skill => installSkillToplatforms(skill)): every install
\* runs up to its first await
WizardStart ==
    /\ cmd = "wizard" /\ pc = "start"
    /\ tasks' = [i \in 1..Len(selectedSkills) |-> NewTask]
    /\ pc' = "await-all"
    /\ UNCHANGED besidesWizard
    /\ UNCHANGED <<cmd, exitCode, fs, opts, env, tempDir, skills, selectedSkills,
                   targetAgents, loop, attempted, reported, results>>

\* Date.now() never runs backwards within the process
Clock == { n \in Instants : \A j \in TaskIds : tasks[j].now <= n }

\* Math.random(): each call gives a suffix no other call gives; a suffix is
\* named after the install that draws it
FreshRand(i) == i

\* the lookup, the URL checks, and mkdir(tempDir)
TaskResolve ==
    /\ cmd = "wizard" /\ pc = "await-all"
    /\ \E i \in TaskIds :
          /\ tasks[i].pc = "resolve"
          /\ \E out \in Lookups(selectedSkills[i]) :
                LET t      == tasks[i]
                    choice == selectedSkills[i]
                IN  IF out = Threw
                    THEN /\ tasks' = [tasks EXCEPT ![i] = Failed(t, choice, "Failed to fetch skills")]
                         /\ fs' = fs
                    ELSE IF out.value = << >>
                    THEN /\ tasks' = [tasks EXCEPT ![i] = Failed(t, choice, "Skill not found")]
                         /\ fs' = fs
                    ELSE IF out.value[1].githubUrl = ""
                    THEN /\ tasks' = [tasks EXCEPT ![i] = Failed(t, choice, "No GitHub URL found")]
                         /\ fs' = fs
                    ELSE IF out.value[1].githubUrl # "github"
                    THEN /\ tasks' = [tasks EXCEPT ![i] = Failed(t, choice, "Invalid GitHub URL")]
                         /\ fs' = fs
                    ELSE \E now \in Clock, rand \in {FreshRand(i)} :
                            /\ tasks' = [tasks EXCEPT ![i] =
                                  [t EXCEPT !.pc = "clone", !.db = out.value,
                                            !.tempDir = WizardTempDir(now, rand),
                                            !.now = now, !.rand = rand,
                                            !.wrote = @ \cup {WizardTempDir(now, rand)}]]
                            /\ fs' = mkdir(fs, WizardTempDir(now, rand))
    /\ UNCHANGED besidesWizard
    /\ UNCHANGED <<cmd, pc, exitCode, opts, env, tempDir, skills, selectedSkills,
                   targetAgents, loop, attempted, reported, results>>

TaskCloneOk ==
    /\ cmd = "wizard" /\ pc = "await-all"
    /\ \E i \in TaskIds :
          /\ tasks[i].pc = "clone"
          /\ fs' = CloneInto(fs, tasks[i].tempDir, RepoOf(tasks[i].db[1]))
          /\ tasks' = [tasks EXCEPT ![i].pc = "copy"]
    /\ UNCHANGED besidesWizard
    /\ UNCHANGED <<cmd, pc, exitCode, opts, env, tempDir, skills, selectedSkills,
                   targetAgents, loop, attempted, reported, results>>

\* git clone throws: the finally block is next
TaskCloneFail ==
    /\ cmd = "wizard" /\ pc = "await-all"
    /\ \E i \in TaskIds :
          /\ tasks[i].pc = "clone"
          /\ tasks' = [tasks EXCEPT ![i].pc = "finally", ![i].failure = "clone failed"]
    /\ UNCHANGED besidesWizard
    /\ UNCHANGED <<cmd, pc, exitCode, fs, opts, env, tempDir, skills, selectedSkills,
                   targetAgents, loop, attempted, reported, results>>

\* skillDir = join(process.cwd(), targetDir, dbSkill.name)
WizardSkillDir(i) ==
    SkillDir(targetAgents[tasks[i].k], FALSE, env.cwd, tasks[i].db[1].name)

\* mkdir(skillDir) and cp(sourceDir, skillDir) of one platform
TaskCopy ==
    /\ cmd = "wizard" /\ pc = "await-all"
    /\ \E i \in TaskIds :
          LET t == tasks[i]
          IN  /\ t.pc = "copy"
              /\ existsSync(fs, SourceDir(t.tempDir, t.db[1]))
              /\ fs' = PlaceSkill(fs, SourceDir(t.tempDir, t.db[1]), WizardSkillDir(i))
              /\ tasks' = [tasks EXCEPT ![i] =
                    [t EXCEPT !.k = @ + 1,
                              !.wrote = @ \cup {WizardSkillDir(i)},
                              !.pc = IF t.k = Len(targetAgents) THEN "finally" ELSE "copy"]]
    /\ UNCHANGED besidesWizard
    /\ UNCHANGED <<cmd, pc, exitCode, opts, env, tempDir, skills, selectedSkills,
                   targetAgents, loop, attempted, reported, results>>

\* mkdir or cp throws: the directory may have been made, nothing was copied
TaskCopyThrow ==
    /\ cmd = "wizard" /\ pc = "await-all"
    /\ \E i \in TaskIds :
          /\ tasks[i].pc = "copy"
          /\ \E made \in BOOLEAN :
                /\ fs' = IF made THEN mkdir(fs, WizardSkillDir(i)) ELSE fs
                /\ tasks' = [tasks EXCEPT ![i].pc = "finally", ![i].failure = "copy failed",
                                          ![i].wrote = IF made THEN @ \cup {WizardSkillDir(i)}
                                                       ELSE @]
    /\ UNCHANGED besidesWizard
    /\ UNCHANGED <<cmd, pc, exitCode, opts, env, tempDir, skills, selectedSkills,
                   targetAgents, loop, attempted, reported, results>>

\* finally: rm(tempDir); then the return of the try block or of the catch
TaskFinally ==
    /\ cmd = "wizard" /\ pc = "await-all"
    /\ \E i \in TaskIds :
          LET t == tasks[i]
          IN  /\ t.pc = "finally"
              /\ fs' = Finally(fs, t.tempDir)
              /\ tasks' = [tasks EXCEPT ![i] =
                    IF t.failure = ""
                    THEN [t EXCEPT !.pc = "returned",
                                   !.result = <<[success |-> TRUE, name |-> t.db[1].name,
                                                 error |-> ""]>>]
                    ELSE Failed(t, selectedSkills[i], t.failure)]
    /\ UNCHANGED besidesWizard
    /\ UNCHANGED <<cmd, pc, exitCode, opts, env, tempDir, skills, selectedSkills,
                   targetAgents, loop, attempted, reported, results>>

\* the report made as soon as one install has returned
WizardReportEarly ==
    /\ cmd = "wizard" /\ pc = "await-all"
    /\ AnySettled
    /\ results' = [i \in TaskIds |->
                      IF tasks[i].pc = "returned" THEN tasks[i].result[1]
                      ELSE [success |-> FALSE, name |-> selectedSkills[i].name,
                            error |-> "pending"]]
    /\ pc' = "done"
    /\ reported' = reported \cup {"results"}
    /\ UNCHANGED besidesWizard
    /\ UNCHANGED <<cmd, exitCode, fs, opts, env, tempDir, skills, selectedSkills,
                   targetAgents, loop, attempted, tasks>>

\* const results = await Promise.all(...); the results are printed
WizardReport ==
    /\ cmd = "wizard" /\ pc = "await-all"
    /\ AllSettled
    /\ results' = [i \in TaskIds |-> tasks[i].result[1]]
    /\ pc' = "done"
    /\ reported' = reported \cup {"results"}
    /\ UNCHANGED besidesWizard
    /\ UNCHANGED <<cmd, exitCode, fs, opts, env, tempDir, skills, selectedSkills,
                   targetAgents, loop, attempted, tasks>>

WizardInit ==
    /\ cmd = "wizard"
    /\ pc = "start"
    /\ exitCode = "none"
    /\ opts = << >>
    /\ env = [cwd |-> <<"home", "proj">>]
    /\ fs = EmptyFs
    /\ selectedSkills \in WizardSelections
    /\ targetAgents \in {<<"cursor">>, <<"cursor", "claude">>}
    /\ tasks = << >>
    /\ results = << >>
    /\ ProcsIdle
    /\ CallIdle
    /\ reported = {}
    /\ resolvedSkill = << >>
    /\ remoteCalls = 0
    /\ legacyCalls = 0
    /\ listing = << >>
    /\ loadedSkills = << >>
    /\ exported = << >>
    /\ SourceIdle
    /\ tempDir = << >>
    /\ skills = << >>
    /\ loop = [i |-> 1, j |-> 1]
    /\ attempted = {}

WizardNext ==
    \/ WizardStart
    \/ TaskResolve
    \/ TaskCloneOk
    \/ TaskCloneFail
    \/ TaskCopy
    \/ TaskCopyThrow
    \/ TaskFinally
    \/ WizardReport

SpecWizard == WizardInit /\ [][WizardNext]_vars

\* the record of one settled install: a success, or a failure with its error text
OneRecord(i) ==
    /\ Len(tasks[i].result) = 1
    /\ \/ tasks[i].result[1].success /\ tasks[i].failure = ""
       \/ ~tasks[i].result[1].success /\ tasks[i].result[1].error # ""
    /\ tasks[i].failure # "" =>
          ~tasks[i].result[1].success /\ tasks[i].result[1].error = tasks[i].failure

WizardGroupState ==
    /\ cmd = "wizard" =>
          /\ exitCode = "none"
          /\ pc # "start" => Len(tasks) = Len(selectedSkills)
          /\ \A i \in TaskIds : tasks[i].pc = "returned" => OneRecord(i)
          /\ "results" \in reported =>
                /\ AllSettled
                /\ Len(results) = Len(selectedSkills)
                /\ \A i \in TaskIds : results[i] = tasks[i].result[1]
          /\ (pc = "await-all" /\ AllSettled) => ENABLED WizardReport

\* a step of one install leaves the record of every other install as it was,
\* and a settled install stays settled with the same record
WizardGroupStep ==
    (cmd = "wizard" /\ pc = "await-all") =>
        /\ \A i, j \in TaskIds : (i # j /\ tasks'[i] # tasks[i]) => tasks'[j] = tasks[j]
        /\ \A i \in TaskIds : tasks[i].pc = "returned" => tasks'[i] = tasks[i]

\* C16: in the wizard every selected skill's install is started in the same
\* step; the results are printed only once every install has returned; each
\* selected skill has exactly one result record, a success or a failure with an
\* error text; a failure of one install is kept in its own record, never ends
\* the command, and no step of one install changes the record of another.
C16_WizardGroupSettles == [](WizardGroupState) /\ [][WizardGroupStep]_vars

\* two installs, the first failed and the second succeeded, both reported
C16_Witness ==
    /\ cmd = "wizard" /\ pc = "done"
    /\ Len(results) = 2
    /\ ~results[1].success /\ results[1].error = "clone failed"
    /\ results[2].success

\* the installs that have not returned yet
Running == { i \in TaskIds : tasks[i].pc # "returned" }

\* C18: in one wizard run, no two installs that are running at the same time
\* have written to the same path, be it a scratch directory or an agent's
\* directory of the resolved skill name.
C18_WizardInstallsWriteApart ==
    cmd = "wizard" =>
        \A i, j \in Running : i # j => tasks[i].wrote \cap tasks[j].wrote = {}

-----------------------------------------------------------------------------
(* Two CLI processes on one machine: the scratch directories they take     *)

ProcIds == 1..Len(procs)

\* the machine's clock never runs backwards
MachineClock == { n \in Instants : \A q \in ProcIds : procs[q].now <= n }

\* the scratch directory a command takes at instant `now`; the wizard's suffix
\* is named after the process that draws it
ScratchOf(command, p, now) ==
    CASE command = "install" -> InstallTempDir(ToString(now))
      [] command = "add"     -> AddTempDir(ToString(now))
      [] command = "wizard"  -> WizardTempDir(now, FreshRand(p))

\* tempDir = join(tmpdir(), ...); mkdir(tempDir, { recursive: true })
ProcScratch ==
    /\ cmd = "processes"
    /\ \E p \in ProcIds, now \in MachineClock :
          /\ procs[p].pc = "start"
          /\ procs' = [procs EXCEPT ![p] =
                [@ EXCEPT !.pc = "cloned", !.now = now,
                          !.tempDir = ScratchOf(procs[p].cmd, p, now)]]
          /\ fs' = mkdir(fs, ScratchOf(procs[p].cmd, p, now))
    /\ UNCHANGED besidesProcs
    /\ UNCHANGED <<cmd, pc, exitCode, opts, env, tempDir, skills, selectedSkills,
                   targetAgents, loop, attempted, reported>>

\* git clone into the scratch directory
ProcClone ==
    /\ cmd = "processes"
    /\ \E p \in ProcIds, repo \in {RepoOne, RepoOther} :
          /\ procs[p].pc = "cloned"
          /\ procs' = [procs EXCEPT ![p].pc = "placed"]
          /\ fs' = CloneInto(fs, procs[p].tempDir, repo)
    /\ UNCHANGED besidesProcs
    /\ UNCHANGED <<cmd, pc, exitCode, opts, env, tempDir, skills, selectedSkills,
                   targetAgents, loop, attempted, reported>>

\* rm(tempDir, { recursive: true, force: true })
ProcCleanup ==
    /\ cmd = "processes"
    /\ \E p \in ProcIds :
          /\ procs[p].pc = "placed"
          /\ procs' = [procs EXCEPT ![p].pc = IF procs[p].cmd = "install" THEN "track"
                                              ELSE "done",
                                    ![p].exit = IF procs[p].cmd = "install" THEN @ ELSE 0]
          /\ fs' = Finally(fs, procs[p].tempDir)
    /\ UNCHANGED besidesProcs
    /\ UNCHANGED <<cmd, pc, exitCode, opts, env, tempDir, skills, selectedSkills,
                   targetAgents, loop, attempted, reported>>

\* the skill each process installs
ProcSkill(p) ==
    IF p = 1
    THEN [name |-> "pdf", author |-> "acme", githubUrl |-> "github",
          path |-> <<"skills", "pdf", "SKILL.md">>]
    ELSE [name |-> "xlsx", author |-> "acme", githubUrl |-> "github", path |-> << >>]

\* mkdir(trackingDir); installed = JSON.parse(await readFile(trackingFile)), or []
ProcTrackRead ==
    /\ cmd = "processes"
    /\ \E p \in ProcIds :
          /\ procs[p].pc = "track"
          /\ fs' = mkdir(fs, trackingDir)
          /\ procs' = [procs EXCEPT ![p].pc = "write",
                                    ![p].installed = ReadInstalled(fs')]
    /\ UNCHANGED besidesProcs
    /\ UNCHANGED <<cmd, pc, exitCode, opts, env, tempDir, skills, selectedSkills,
                   targetAgents, loop, attempted, reported>>

\* the write of a tracking step that holds a lock from its read to its write:
\* what it writes is what the file holds now, and the new entry
ProcTrackWriteLocked ==
    /\ cmd = "processes"
    /\ \E p \in ProcIds :
          /\ procs[p].pc = "write"
          /\ IF IsArray(ReadInstalled(fs))
             THEN /\ fs' = writeFile(fs, trackingFile,
                              Append(ReadInstalled(fs), TrackingEntry(ProcSkill(p), <<"cursor">>)))
                  /\ procs' = [procs EXCEPT ![p].pc = "done", ![p].exit = 0]
             ELSE /\ fs' = fs
                  /\ procs' = [procs EXCEPT ![p].pc = "done", ![p].exit = 1]
    /\ UNCHANGED besidesProcs
    /\ UNCHANGED <<cmd, pc, exitCode, opts, env, tempDir, skills, selectedSkills,
                   targetAgents, loop, attempted, reported>>

\* installed.push({...}); await writeFile(trackingFile, JSON.stringify(installed));
\* push throws when the parsed value is not an array: the catch exits with 1
ProcTrackWrite ==
    /\ cmd = "processes"
    /\ \E p \in ProcIds :
          /\ procs[p].pc = "write"
          /\ IF IsArray(procs[p].installed)
             THEN /\ fs' = writeFile(fs, trackingFile,
                              Append(procs[p].installed,
                                     TrackingEntry(ProcSkill(p), <<"cursor">>)))
                  /\ procs' = [procs EXCEPT ![p].pc = "done", ![p].exit = 0]
             ELSE /\ fs' = fs
                  /\ procs' = [procs EXCEPT ![p].pc = "done", ![p].exit = 1]
    /\ UNCHANGED besidesProcs
    /\ UNCHANGED <<cmd, pc, exitCode, opts, env, tempDir, skills, selectedSkills,
                   targetAgents, loop, attempted, reported>>

\* what is on disk before the processes start
ProcsInitialFs ==
    { EmptyFs }
    \cup { writeFile(mkdir(EmptyFs, trackingDir), trackingFile, c) :
             c \in { <<TrackingEntry(ProcSkill(1), <<"claude">>)>>, JsonObject } }

ProcsInit ==
    /\ cmd = "processes"
    /\ pc = "start"
    /\ exitCode = "none"
    /\ opts = << >>
    /\ env = [cwd |-> <<"home", "proj">>]
    /\ fs \in ProcsInitialFs
    /\ CallIdle
    /\ procs \in { <<[cmd |-> a, pc |-> "start", now |-> 0, tempDir |-> << >>,
                      installed |-> << >>, exit |-> "none"],
                     [cmd |-> b, pc |-> "start", now |-> 0, tempDir |-> << >>,
                      installed |-> << >>, exit |-> "none"]>> :
                   a \in {"install", "add", "wizard"}, b \in {"install", "add", "wizard"} }
    /\ selectedSkills = << >>
    /\ targetAgents = << >>
    /\ WizardIdle
    /\ reported = {}
    /\ resolvedSkill = << >>
    /\ remoteCalls = 0
    /\ legacyCalls = 0
    /\ listing = << >>
    /\ loadedSkills = << >>
    /\ exported = << >>
    /\ SourceIdle
    /\ tempDir = << >>
    /\ skills = << >>
    /\ loop = [i |-> 1, j |-> 1]
    /\ attempted = {}

ProcsNext ==
    \/ ProcScratch
    \/ ProcClone
    \/ ProcCleanup
    \/ ProcTrackRead
    \/ ProcTrackWrite

SpecProcs == ProcsInit /\ [][ProcsNext]_vars

\* the processes that hold a scratch directory
Holding == { p \in ProcIds : procs[p].pc \in {"cloned", "placed"} }

\* C17: no two installs that run at the same time use the same scratch path,
\* whichever of `install`, `add` and the wizard each process runs and whenever
\* each takes its scratch directory (the same millisecond included).
C17_ScratchPathsUnique ==
    \A p, q \in Holding : p # q => procs[p].tempDir # procs[q].tempDir

-----------------------------------------------------------------------------
(* The tracking file                                                       *)

\* what the tracking file holds: nothing when it is missing
Held(f) == IF trackingFile \in DOMAIN f.files THEN f.files[trackingFile] ELSE << >>

\* an `install` run is at its tracking step
AtTrackingStep == cmd = "install" /\ pc = "install" /\ loop.j > Len(targetAgents)

\* the file holds what it held, in the same order, and one more entry
AppendedOne ==
    /\ Len(Held(fs')) = Len(Held(fs)) + 1
    /\ SubSeq(Held(fs'), 1, Len(Held(fs))) = Held(fs)
    /\ Held(fs')[Len(Held(fs'))] = TrackingEntry(env.skill, targetAgents)

\* C19: the step of an `install` run that reaches the tracking step leaves in
\* ~/.antigravity/installed.json everything the file held before, in the same
\* order, followed by exactly one new entry, whatever the file held before.
C19_TrackingAppendOnly == [][AtTrackingStep => AppendedOne]_vars

\* the names of the skills a finished run has placed into agent directories
PlacedNames ==
    CASE cmd = "add" ->
            IF "installed" \in reported
            THEN { selectedSkills[pair[1]].name : pair \in attempted }
            ELSE {}
      [] cmd = "install" ->
            IF "installed" \in reported /\ attempted # {} THEN {env.skill.name} ELSE {}
      [] cmd = "wizard" ->
            { results[i].name : i \in { k \in 1..Len(results) : results[k].success } }
      [] OTHER -> {}

\* the names the entries of the tracking file carry
TrackedNames ==
    { Held(fs)[k].v.name : k \in { n \in 1..Len(Held(fs)) : Held(fs)[n].k = "entry" } }

\* C20: once a run of `install`, of `add` or of the wizard has finished, every
\* skill it placed into an agent directory has an entry in the tracking file.
C20_EveryInstallTracked == Finished => PlacedNames \subseteq TrackedNames

-----------------------------------------------------------------------------
(* Two `install` runs and the tracking file                                *)

\* both processes ran `install` and both finished with success
BothInstalled ==
    /\ cmd = "processes"
    /\ \A p \in ProcIds : procs[p].cmd = "install" /\ procs[p].pc = "done" /\ procs[p].exit = 0

\* the number of entries the file held before either run read it
InitialCount ==
    CHOOSE n \in { Len(procs[p].installed) : p \in ProcIds } :
        \A p \in ProcIds : n <= Len(procs[p].installed)

\* both runs read the file before either wrote it
ReadTheSame == \A p, q \in ProcIds : procs[p].installed = procs[q].installed

\* C21: the tracking step takes no lock between its read and its write. When
\* two `install` runs have both finished with success, the file holds the
\* entries it held before and both new records if one run read after the other
\* wrote, and only one of the two new records if both read before either wrote.
C21_TrackingRace ==
    BothInstalled =>
        /\ ~ReadTheSame => Len(Held(fs)) = InitialCount + 2
        /\ ReadTheSame  => Len(Held(fs)) = InitialCount + 1

\* both runs succeeded and one of the two records is missing
C21_Witness ==
    /\ BothInstalled
    /\ InitialCount = 1
    /\ Len(Held(fs)) < InitialCount + Len(procs)

-----------------------------------------------------------------------------
(* Exit codes                                                              *)

\* what `install` and `add` print as an error: no GitHub URL, a URL that is
\* not a GitHub URL, an unknown platform, a failed clone, a caught exception
ErrorReports == {"no-url", "invalid-url", "unknown-platform", "clone-failed", "error"}

\* the process ended with this exit code (exitCode is "none" until process.exit)
ExitedWith(code) == ToString(exitCode) = ToString(code)

\* C22: a finished run of `install` or `add` that reported an error to the
\* user ended with exit code 1.
C22_ReportedErrorExitsOne ==
    (cmd \in {"install", "add"} /\ Finished /\ reported \cap ErrorReports # {})
        => ExitedWith(1)

-----------------------------------------------------------------------------
(* The candidate scan of `add`                                             *)

\* the folders the scan is said to cover: the root, skills/, and the project
\* skills folder of every agent of the AGENTS table
StatedSearchDirs(searchPath) ==
    {searchPath, join(searchPath, <<"skills">>)}
        \cup { join(searchPath, AGENTS[a].projectDir) : a \in AgentKeySet }

\* the candidates of the stated folders
StatedCandidates(f, searchPath) ==
    UNION { CandidatesIn(f, d) : d \in StatedSearchDirs(searchPath) }

\* C23: the discovery step of `add` finds exactly the immediate subdirectories
\* holding SKILL.md of the repository root, of skills/ and of each of the ten
\* agents' project skills folders, each under its front-matter name or, without
\* a name line, its directory name.
C23_ScanCoversEveryAgent ==
    [][(cmd = "add" /\ pc = "discover")
          => Range(skills') = StatedCandidates(fs, join(tempDir, opts.subpath))]_vars

-----------------------------------------------------------------------------
(* A failed clone                                                          *)

\* the step in which git clone fails
CloneFailStep ==
    /\ cmd \in {"add", "install"}
    /\ pc = "clone" /\ pc' = "done"
    /\ cmd = "install" => env.skill.githubUrl = "github"

\* the disk as it was before the run, with the parent of the scratch directory
Untouched(f) ==
    \E f0 \in InitialFs \cup InstallInitialFs :
        f = [files |-> f0.files, dirs |-> f0.dirs \cup {tmpdir}]

\* C24: the step of `install` or `add` in which the clone fails ends the run
\* with nothing placed: no copy was attempted, the scratch directory is gone,
\* and every file and directory elsewhere, the tracking file included, is as it
\* was before the run.
C24_CloneFailureAborts ==
    [][CloneFailStep => (attempted' = {} /\ ScratchGone' /\ Untouched(fs'))]_vars

\* an `install` run ended by a failed clone, with an earlier tracking file
C24_Witness ==
    /\ cmd = "install" /\ Finished /\ ExitedWith(1)
    /\ attempted = {} /\ tempDir # << >>
    /\ IsArray(Held(fs)) /\ Len(Held(fs)) = 1

-----------------------------------------------------------------------------
(* The target platforms of `install`                                       *)

\* `install` is about to choose its platforms: the skill has a URL and --list is off
ChoosesPlatforms ==
    cmd = "install" /\ pc = "start" /\ env.skill.githubUrl # "" /\ ~opts.list

\* the five agents auto-detection knows, with their marker directories
Markers ==
    { <<"cursor", ".cursor">>, <<"claude", ".claude">>, <<"copilot", ".github">>,
      <<"codex", ".codex">>, <<"antigravity", ".agent">> }

\* the source the stated priority picks: the first one that is present
PrioritySource ==
    IF opts.all THEN "all"
    ELSE IF Len(opts.platformsArg) > 0 THEN "positional"
    ELSE IF Len(opts.target) > 0 THEN "target"
    ELSE IF Len(opts.platform) > 0 THEN "platform"
    ELSE "detect"

\* the chosen list is the one the stated priority gives
ChosenByPriority ==
    CASE PrioritySource = "all"        -> targetAgents' = AgentKeys
      [] PrioritySource = "positional" -> lower(targetAgents') = lower(opts.platformsArg)
      [] PrioritySource = "target"     -> lower(targetAgents') = lower(opts.target)
      [] PrioritySource = "platform"   -> lower(targetAgents') = lower(opts.platform)
      [] PrioritySource = "detect" ->
            LET found == { m \in Markers : existsSync(fs, join(env.cwd, <<m[2]>>)) }
            IN  IF found # {}
                THEN /\ Range(targetAgents') = { m[1] : m \in found }
                     /\ Len(targetAgents') = Cardinality(found)
                     /\ "prompt-platforms" \notin reported'
                ELSE "prompt-platforms" \in reported'

\* C25: `install` takes its platforms from the first present of --all, the
\* positional arguments, --target, --platform and auto-detection; auto-detection
\* gives exactly the agents whose marker directory exists in the current
\* directory; the prompt is shown only when no source is present and nothing is
\* detected; with an empty list the run ends without touching the disk.
C25_PlatformPriority ==
    [][ChoosesPlatforms =>
          /\ ChosenByPriority
          /\ PrioritySource # "detect" => "prompt-platforms" \notin reported'
          /\ Len(targetAgents') = 0 => (pc' = "done" /\ fs' = fs /\ attempted' = {})]_vars

\* positional arguments and --target are both given: the positional ones win
C25_Witness ==
    /\ cmd = "install" /\ pc = "clone"
    /\ ~opts.all /\ Len(opts.platformsArg) > 0 /\ Len(opts.target) > 0
    /\ targetAgents = lower(opts.platformsArg)

-----------------------------------------------------------------------------
(* getSkillAssets: the manifest first, the GitHub contents API as fallback *)

RAWHOST == "raw.githubusercontent.com"

\* raw URLs, as a host and the segments of the path
RawUrls ==
    { [host |-> RAWHOST, segs |-> <<"acme", "repo", "main", "skills", "pdf", "SKILL.md">>],
      [host |-> RAWHOST, segs |-> <<"acme", "repo", "main">>],
      [host |-> "example.com", segs |-> <<"acme", "repo", "main", "pdf", "skill.md">>] }

\* rawUrl.replace(/\/SKILL\.md$/i, '')
getSkillBaseUrl(rawUrl) == [rawUrl EXCEPT !.segs = StripSkillMd(@)]

\* the match of /https:\/\/raw\.githubusercontent\.com\/([^/]+)\/([^/]+)\/([^/]+)\/(.+)/:
\* << >> for null, else a one-element sequence
parseRawUrl(rawUrl) ==
    IF rawUrl.host = RAWHOST /\ Len(rawUrl.segs) >= 4
    THEN <<[owner  |-> rawUrl.segs[1], repo |-> rawUrl.segs[2], branch |-> rawUrl.segs[3],
            path   |-> StripSkillMd(SubSeq(rawUrl.segs, 4, Len(rawUrl.segs)))]>>
    ELSE << >>

\* what fetch(manifestUrl) can give: a network error, a non-OK status, a body
ManifestResponses ==
    { [kind |-> "throw", body |-> << >>], [kind |-> "not-ok", body |-> << >>] }
    \cup { [kind |-> "ok", body |-> b] :
             b \in { << >>, <<Line("blank", " ")>>, <<Line("json", "a")>>,
                     <<Line("json", "a"), Line("blank", " "), Line("json", "b")>>,
                     <<Line("json", "a"), Line("bad", "oops")>> } }

\* the items the contents API can list, or a body that is not an array
ApiResponses ==
    { [kind |-> "throw", items |-> << >>], [kind |-> "not-ok", items |-> << >>],
      [kind |-> "not-array", items |-> << >>] }
    \cup { [kind |-> "ok", items |-> i] :
             i \in { << >>,
                     <<[type |-> "file", name |-> "a.html"]>>,
                     <<[type |-> "dir", name |-> "img"]>>,
                     <<[type |-> "dir", name |-> "img"], [type |-> "file", name |-> "b.html"]>> } }

\* the lines line => line.trim() keeps
NonBlank(body) == filter(body, { k \in 1..Len(body) : body[k].k # "blank" })

\* fetchAssetManifest without its try / catch: JSON.parse of a bad line throws
fetchAssetManifestNoCatch(resp) ==
    IF resp.kind = "throw" THEN Threw
    ELSE IF resp.kind = "not-ok" THEN Returned(<< >>)
    ELSE IF \E k \in 1..Len(resp.body) : resp.body[k].k = "bad" THEN Threw
    ELSE Returned(<<NonBlank(resp.body)>>)

\* fetchAssetManifest: << >> for null, else <<entries>>
fetchAssetManifest(resp) ==
    IF resp.kind = "throw" THEN Returned(<< >>)
    ELSE IF resp.kind = "not-ok" THEN Returned(<< >>)
    ELSE IF \E k \in 1..Len(resp.body) : resp.body[k].k = "bad" THEN Returned(<< >>)
    ELSE Returned(<<NonBlank(resp.body)>>)

\* listAssetsFromGitHub: [] on a network error, a non-OK status, and on a body
\* whose filter call throws
listAssetsFromGitHub(resp) ==
    IF resp.kind # "ok" THEN Returned(<< >>)
    ELSE Returned(filter(resp.items, { k \in 1..Len(resp.items) : resp.items[k].type = "file" }))

AssetsResult(assets, src) == Returned([assets |-> assets, source |-> src])

\* const manifest = await fetchAssetManifest(baseUrl); the manifest return;
\* parseRawUrl and the return for a URL that does not parse
AssetsManifest ==
    /\ cmd = "getSkillAssets" /\ call.pc = "manifest"
    /\ LET got    == fetchAssetManifest(call.manifestResp)
           called == Append(call.calls,
                            [fn |-> "manifest", url |-> getSkillBaseUrl(call.rawUrl)])
       IN  IF got.threw
           THEN call' = [call EXCEPT !.pc = "done", !.calls = called, !.result = <<Threw>>]
           ELSE IF got.value # << >> /\ Len(got.value[1]) > 0
           THEN call' = [call EXCEPT !.pc = "done", !.calls = called,
                                     !.result = <<AssetsResult(got.value[1], "manifest")>>]
           ELSE IF parseRawUrl(call.rawUrl) = << >>
           THEN call' = [call EXCEPT !.pc = "done", !.calls = called,
                                     !.result = <<AssetsResult(<< >>, "none")>>]
           ELSE call' = [call EXCEPT !.pc = "api", !.calls = called]
    /\ UNCHANGED besidesCall
    /\ UNCHANGED <<placeVars, cmd, pc, exitCode, opts, env, reported>>

\* const files = await listAssetsFromGitHub(...); the two last returns
AssetsListGitHub ==
    /\ cmd = "getSkillAssets" /\ call.pc = "api"
    /\ LET got    == listAssetsFromGitHub(call.apiResp)
           called == Append(call.calls,
                            [fn |-> "api", url |-> parseRawUrl(call.rawUrl)[1]])
       IN  IF got.threw
           THEN call' = [call EXCEPT !.pc = "done", !.calls = called, !.result = <<Threw>>]
           ELSE IF Len(got.value) > 0
           THEN call' = [call EXCEPT !.pc = "done", !.calls = called,
                                     !.result = <<AssetsResult(got.value, "github-api")>>]
           ELSE call' = [call EXCEPT !.pc = "done", !.calls = called,
                                     !.result = <<AssetsResult(<< >>, "none")>>]
    /\ UNCHANGED besidesCall
    /\ UNCHANGED <<placeVars, cmd, pc, exitCode, opts, env, reported>>

AssetsInit ==
    /\ cmd = "getSkillAssets"
    /\ pc = "start"
    /\ exitCode = "none"
    /\ opts = << >>
    /\ env = << >>
    /\ fs = EmptyFs
    /\ call \in [rawUrl : RawUrls, manifestResp : ManifestResponses, apiResp : ApiResponses,
                 pc : {"manifest"}, calls : {<< >>}, result : {<< >>}]
    /\ selectedSkills = << >>
    /\ targetAgents = << >>
    /\ WizardIdle
    /\ ProcsIdle
    /\ reported = {}
    /\ resolvedSkill = << >>
    /\ remoteCalls = 0
    /\ legacyCalls = 0
    /\ listing = << >>
    /\ loadedSkills = << >>
    /\ exported = << >>
    /\ SourceIdle
    /\ tempDir = << >>
    /\ skills = << >>
    /\ loop = [i |-> 1, j |-> 1]
    /\ attempted = {}

AssetsNext == AssetsManifest \/ AssetsListGitHub

SpecAssets == AssetsInit /\ [][AssetsNext]_vars

\* a manifest with at least one entry was fetched
NonEmptyManifest ==
    /\ call.manifestResp.kind = "ok"
    /\ \A k \in 1..Len(call.manifestResp.body) : call.manifestResp.body[k].k # "bad"
    /\ \E k \in 1..Len(call.manifestResp.body) : call.manifestResp.body[k].k = "json"

\* the contents API was asked
ApiCalled == \E k \in 1..Len(call.calls) : call.calls[k].fn = "api"

\* the contents API listed at least one file
ApiListedFile ==
    /\ ApiCalled
    /\ call.apiResp.kind = "ok"
    /\ \E k \in 1..Len(call.apiResp.items) : call.apiResp.items[k].type = "file"

\* C26: getSkillAssets asks for the manifest first and calls the GitHub
\* contents API only when the manifest gave nothing; the source is 'manifest'
\* exactly when a non-empty manifest was fetched, 'github-api' exactly when it
\* was not and the API listed a file, 'none' otherwise; source is 'none' exactly
\* when assets is empty; and the function returns whatever the fetches do.
C26_ManifestFirst ==
    cmd = "getSkillAssets" =>
        /\ Len(call.calls) > 0 => call.calls[1].fn = "manifest"
        /\ ApiCalled => ~NonEmptyManifest
        /\ call.pc = "done" =>
              /\ ~call.result[1].threw
              /\ LET r == call.result[1].value
                 IN  /\ r.source = "manifest" <=> NonEmptyManifest
                     /\ r.source = "github-api" <=> (~NonEmptyManifest /\ ApiListedFile)
                     /\ r.source \in {"manifest", "github-api", "none"}
                     /\ r.source = "none" <=> r.assets = << >>

\* the manifest holds a line that does not parse and the API lists a file
C26_Witness ==
    /\ cmd = "getSkillAssets" /\ call.pc = "done"
    /\ \E k \in 1..Len(call.manifestResp.body) : call.manifestResp.body[k].k = "bad"
    /\ ~call.result[1].threw
    /\ call.result[1].value.source = "github-api"

-----------------------------------------------------------------------------
(* installFromGitHubUrl: one SKILL.md fetched and written                  *)

\* GitHub URLs, as the segments that follow github.com/ (a trailing slash
\* leaves an empty last segment)
GitHubUrls ==
    { <<"acme", "repo", "tree", "main", "skills", "pdf">>,
      <<"acme", "repo", "tree", "dev", "skills", "pdf", "">>,
      <<"acme", "repo", "tree", "main">>,
      <<"acme", "repo", "blob", "main", "pdf">>,
      <<"acme", "repo">>,
      <<"acme">>,
      << >> }

\* the leading segments are non-empty, as [^/]+ asks
Filled(url, n) == Len(url) >= n /\ \A k \in 1..n : url[k] # ""

\* url.match(/github\.com\/([^/]+)/): '' without a match
extractOwner(url) == IF Filled(url, 1) THEN url[1] ELSE ""

\* url.match(/github\.com\/[^/]+\/([^/]+)/)
extractRepoName(url) == IF Filled(url, 2) THEN url[2] ELSE ""

\* the match of github\.com\/[^/]+\/[^/]+\/tree\/[^/]+\/(.+)
TreeForm(url) ==
    /\ Filled(url, 4) /\ url[3] = "tree"
    /\ Len(url) >= 5
    /\ (Len(url) = 5 => url[5] # "")

\* url.match(/github\.com\/[^/]+\/[^/]+\/tree\/([^/]+)/): 'main' without a match
extractBranch(url) == IF Filled(url, 4) /\ url[3] = "tree" THEN url[4] ELSE "main"

\* the path after tree/<branch>/, as its segments: << >> for ''
extractGitHubPath(url) == IF TreeForm(url) THEN SubSeq(url, 5, Len(url)) ELSE << >>

\* a name taken from the front of the path
skillNameFirst(skillPath) == IF skillPath[1] = "" THEN "skill" ELSE skillPath[1]

\* skillPath.split('/').pop() || 'skill'
skillNameOf(skillPath) ==
    IF skillPath[Len(skillPath)] = "" THEN "skill" ELSE skillPath[Len(skillPath)]

installDir == join(home, <<".antigravity", "skills">>)

\* what fetch(skillMdUrl) and response.text() can give
SkillMdResponses ==
    { [kind |-> "throw", body |-> << >>], [kind |-> "not-ok", body |-> << >>],
      [kind |-> "text-throws", body |-> << >>],
      [kind |-> "ok", body |-> SkillMd("pdf", "d1", "b1")],
      [kind |-> "ok", body |-> Text("moved")] }

\* the owner, repo and path checks, then the fetch of SKILL.md
UrlFetch ==
    /\ cmd = "installFromGitHubUrl" /\ call.pc = "start"
    /\ LET url == call.githubUrl
       IN  IF extractOwner(url) = "" \/ extractRepoName(url) = "" \/ extractGitHubPath(url) = << >>
           THEN call' = [call EXCEPT !.pc = "done", !.stage = "url", !.result = <<Threw>>]
           ELSE LET asked == [owner |-> extractOwner(url), repo |-> extractRepoName(url),
                              branch |-> extractBranch(url),
                              path |-> Append(extractGitHubPath(url), "SKILL.md")]
                IN  IF call.response.kind = "ok"
                    THEN call' = [call EXCEPT !.pc = "mkdir", !.fetched = <<asked>>]
                    ELSE call' = [call EXCEPT !.pc = "done", !.stage = "fetch",
                                              !.fetched = <<asked>>, !.result = <<Threw>>]
    /\ fs' = fs
    /\ UNCHANGED besidesCall
    /\ UNCHANGED <<tempDir, skills, selectedSkills, targetAgents, loop, attempted,
                   cmd, pc, exitCode, opts, env, reported>>

destPath == join(installDir, <<skillNameOf(extractGitHubPath(call.githubUrl))>>)

\* await mkdir(destPath, { recursive: true }): done, or thrown with none or
\* some of the directories made
UrlMkdir ==
    /\ cmd = "installFromGitHubUrl" /\ call.pc = "mkdir"
    /\ \/ /\ fs' = mkdir(fs, destPath)
          /\ call' = [call EXCEPT !.pc = "write"]
       \/ /\ fs' \in {fs, mkdir(fs, installDir)}
          /\ call' = [call EXCEPT !.pc = "done", !.stage = "mkdir", !.result = <<Threw>>]
    /\ UNCHANGED besidesCall
    /\ UNCHANGED <<tempDir, skills, selectedSkills, targetAgents, loop, attempted,
                   cmd, pc, exitCode, opts, env, reported>>

\* await writeFile(`${destPath}/SKILL.md`, skillContent); return { name, path }
UrlWrite ==
    /\ cmd = "installFromGitHubUrl" /\ call.pc = "write"
    /\ \/ /\ fs' = writeFile(fs, join(destPath, <<"SKILL.md">>), call.response.body)
          /\ call' = [call EXCEPT !.pc = "done", !.stage = "return",
                         !.result = <<Returned([name |-> skillNameOf(extractGitHubPath(call.githubUrl)),
                                                path |-> destPath])>>]
       \/ /\ fs' = fs
          /\ call' = [call EXCEPT !.pc = "done", !.stage = "write", !.result = <<Threw>>]
    /\ UNCHANGED besidesCall
    /\ UNCHANGED <<tempDir, skills, selectedSkills, targetAgents, loop, attempted,
                   cmd, pc, exitCode, opts, env, reported>>

\* an earlier install of the same skill, with a file of its own
FsEarlierUrl ==
    MkTree((join(installDir, <<"pdf", "SKILL.md">>) :> SkillMd("pdf", "d0", "b0"))
        @@ (join(installDir, <<"pdf", "notes.md">>) :> Text("n0")))

UrlInit ==
    /\ cmd = "installFromGitHubUrl"
    /\ pc = "start"
    /\ exitCode = "none"
    /\ opts = << >>
    /\ fs \in {EmptyFs, FsEarlierUrl}
    /\ env = [before |-> fs]
    /\ call \in [githubUrl : GitHubUrls, response : SkillMdResponses, pc : {"start"},
                 stage : {""}, fetched : {<< >>}, result : {<< >>}]
    /\ selectedSkills = << >>
    /\ targetAgents = << >>
    /\ WizardIdle
    /\ ProcsIdle
    /\ reported = {}
    /\ resolvedSkill = << >>
    /\ remoteCalls = 0
    /\ legacyCalls = 0
    /\ listing = << >>
    /\ loadedSkills = << >>
    /\ exported = << >>
    /\ SourceIdle
    /\ tempDir = << >>
    /\ skills = << >>
    /\ loop = [i |-> 1, j |-> 1]
    /\ attempted = {}

UrlNext == UrlFetch \/ UrlMkdir \/ UrlWrite

SpecUrl == UrlInit /\ [][UrlNext]_vars

\* the call is over and it threw
UrlThrew == cmd = "installFromGitHubUrl" /\ call.pc = "done" /\ call.result[1].threw

\* the call is over and it returned
UrlReturned == cmd = "installFromGitHubUrl" /\ call.pc = "done" /\ ~call.result[1].threw

\* the last segment of the URL's path that is not empty
LastNamed(url) == url[CHOOSE k \in 5..Len(url) : url[k] # "" /\ \A m \in (k+1)..Len(url) : url[m] = ""]

\* on success: one file written, <installDir>/<name>/SKILL.md with the fetched
\* text, every other file as before, and that name and path returned
WroteOneFile(name) ==
    LET dest == join(installDir, <<name>>)
        file == join(dest, <<"SKILL.md">>)
    IN  /\ call.result[1].value = [name |-> name, path |-> dest]
        /\ DOMAIN fs.files = DOMAIN env.before.files \cup {file}
        /\ fs.files[file] = call.response.body
        /\ \A q \in DOMAIN env.before.files : q # file => fs.files[q] = env.before.files[q]

-----------------------------------------------------------------------------
(* The scratch directory of `install` and of the wizard's installs         *)

\* one run of `add`, of `install` or of the wizard
InstallsInit == Init \/ WizardInit

InstallsNext == Next \/ WizardNext

SpecInstalls == InstallsInit /\ [][InstallsNext]_vars

\* nothing is left at or below a directory
Gone(dir) == \A q \in fs.dirs \cup DOMAIN fs.files : ~IsPrefix(dir, q)

\* C27: when `install` has ended after making its scratch directory, whether
\* by success, by the return on an invalid URL, by a failed clone or by a throw
\* of mkdir or cp, the scratch directory is gone; in the wizard the scratch
\* directory of an install is gone once that install has returned its record.
C27_ScratchRemovedBeforeReport ==
    /\ (cmd = "install" /\ Finished /\ tempDir # << >>) => Gone(tempDir)
    /\ cmd = "wizard" =>
          \A i \in TaskIds :
              (tasks[i].pc = "returned" /\ tasks[i].tempDir # << >>) => Gone(tasks[i].tempDir)

\* an `install` run that a throw of mkdir or cp ended, after a copy was tried
C27_Witness ==
    /\ cmd = "install" /\ Finished /\ ExitedWith(1)
    /\ attempted # {} /\ tempDir # << >>
    /\ Gone(tempDir)

-----------------------------------------------------------------------------
(* What a placement leaves in the skill directory                          *)

\* the files below a directory, by their path relative to it
Below(f, dir) == { <<Rel(dir, q), f.files[q]>> : q \in { x \in DOMAIN f.files : IsPrefix(dir, x) } }

\* a step of `install` or `add` that copied one skill into one agent directory
CopyStep == cmd \in {"install", "add"} /\ pc = "install" /\ pc' = "install" /\ attempted' # attempted

\* the source folder and the skill directory of the copy being made
CopySource ==
    IF cmd = "add" THEN selectedSkills[loop.i].path ELSE SourceDir(tempDir, env.skill)

CopyTarget ==
    IF cmd = "add"
    THEN SkillDir(targetAgents[loop.j], opts.global, env.cwd, selectedSkills[loop.i].name)
    ELSE SkillDir(targetAgents[loop.j], opts.global, env.cwd, env.skill.name)

\* the paths the source folder holds, relative to it
SourcePaths == { e[1] : e \in Below(fs, CopySource) }

\* C29 as stated: after a copy the skill directory holds exactly the files of
\* the source folder; a file of an earlier install that the source no longer
\* has is gone.
C29_TargetEqualsSource ==
    [][CopyStep => Below(fs', CopyTarget) = Below(fs, CopySource)]_vars

\* the copy merges into the skill directory: it holds the source's files and,
\* unchanged, every file it held before under a path the source lacks
TargetCoversSource ==
    [][CopyStep =>
          Below(fs', CopyTarget) =
              Below(fs, CopySource)
                  \cup { e \in Below(fs, CopyTarget) : e[1] \notin SourcePaths }]_vars

-----------------------------------------------------------------------------
(* What a tracking record says about the run                               *)

\* the step of `install` that appends one record to the tracking file
AppendStep == AtTrackingStep /\ Held(fs') # Held(fs)

\* the record that step appended
Appended == Held(fs')[Len(Held(fs'))].v

\* the agents into whose directory the run copied the skill
CopiedAgents == { targetAgents[e[2]] : e \in attempted }

\* C30: a record with platforms P is appended only when the skill was copied
\* into at least one agent's directory, and every platform of P is a known
\* agent whose directory received a copy in that run.
C30_RecordReflectsPlacement ==
    [][AppendStep =>
          /\ CopiedAgents # {}
          /\ \A i \in DOMAIN Appended.platforms :
                 /\ Appended.platforms[i] \in DOMAIN AGENTS
                 /\ Appended.platforms[i] \in CopiedAgents]_vars

====
